---------------------------- MODULE Spec2Model ----------------------------
(***************************************************************************)
(* A model of gdrive_uploader: the upload orchestration of                 *)
(* src/src/gdrive_uploader (cli/upload_all.py, core/folder_uploader.py,    *)
(* core/drive_api.py, utils/file_utils.py) and the ledger code of the      *)
(* single-folder script src/gdrive_uploader.py.                            *)
(*                                                                         *)
(* Local paths are sequences of name components (os.path.join appends a    *)
(* component, os.path.dirname drops the last one, os.path.basename is the  *)
(* last one, rel_path.count(os.sep) is the length minus one).  The relative*)
(* path "." of a folder's own root is the empty sequence.  Remote ids and  *)
(* names are strings; the Python value None is the string "None".  md5 is  *)
(* taken to be injective: a hash is represented by the text it digests.    *)
(***************************************************************************)
EXTENDS Integers, Sequences, FiniteSets, TLC

(***************************************************************************)
(* Bounds of the model.                                                    *)
(***************************************************************************)
MaxFaults == 2      \* calls and local operations the environment fails in one invocation
MaxRuns == 2        \* invocations of upload_all_folders in a behaviour of SpecRerun
MaxRerunFaults == 1 \* calls and local operations the environment fails in SpecRerun
MaxWorkers == 2     \* largest --workers value tried
MaxTouch == 1        \* times the operator modifies a pending folder (mtime)
MaxCacheCalls == 3          \* direct calls of find_or_create_folder in one process
MaxClientFaults == 6 \* calls the environment fails in SpecClient

(***************************************************************************)
(* Program constants.                                                      *)
(***************************************************************************)
max_retries == 5            \* drive_api.py:165
batch_size == 100           \* folder_uploader.py:214
small_group_limit == 5      \* drive_api.py:202, len(folders) <= 5

None == "None"
DriveRoot == "root"         \* the parent Drive gives an object created with no parents
Dot == << >>                \* the relative path '.'

(***************************************************************************)
(* The local file system: the folders of the pending directory             *)
(* data/to_upload.  Project is the tree of the end-to-end scenario (a.txt, *)
(* sub/, sub/b.txt, sub/empty/); Wide has six sibling sub-directories, one more  *)
(* than batch_create_folders creates one by one, and a file in the first.  *)
(* Pair has two sibling sub-directories, which batch_create_folders        *)
(* creates one by one, and a file in the second.  Linked holds a file and  *)
(* a symbolic link whose target is gone.                                   *)
(* listdir[f][d] is what os.walk reports for directory d of folder f:      *)
(* its sub-directory names and its file names, in scandir's order.         *)
(***************************************************************************)
FolderNames == <<"Linked", "Pair", "Project", "Wide">>    \* os.listdir(to_upload_dir)

AllFolders == {FolderNames[i] : i \in 1..Len(FolderNames)}

listdir ==
  [Linked |->
     (Dot :> [dirs |-> << >>, files |-> <<"dead", "h.txt">>]),
   Pair |->
     (Dot :> [dirs |-> <<"p1", "p2">>, files |-> << >>]) @@
     (<<"p1">> :> [dirs |-> << >>, files |-> << >>]) @@
     (<<"p2">> :> [dirs |-> << >>, files |-> <<"g.txt">>]),
   Project |->
     (Dot :> [dirs |-> <<"sub">>, files |-> <<"a.txt">>]) @@
     (<<"sub">> :> [dirs |-> <<"empty">>, files |-> <<"b.txt">>]) @@
     (<<"sub", "empty">> :> [dirs |-> << >>, files |-> << >>]),
   Wide |->
     (Dot :> [dirs |-> <<"d1", "d2", "d3", "d4", "d5", "d6">>, files |-> << >>]) @@
     (<<"d1">> :> [dirs |-> << >>, files |-> <<"f.txt">>]) @@
     (<<"d2">> :> [dirs |-> << >>, files |-> << >>]) @@
     (<<"d3">> :> [dirs |-> << >>, files |-> << >>]) @@
     (<<"d4">> :> [dirs |-> << >>, files |-> << >>]) @@
     (<<"d5">> :> [dirs |-> << >>, files |-> << >>]) @@
     (<<"d6">> :> [dirs |-> << >>, files |-> << >>])]

\* os.path.getsize(path): defined for the paths that resolve to a file; for a
\* link whose target is gone the call raises OSError
getsize ==
  [Linked |-> (<<"h.txt">> :> 3),
   Pair |-> (<<"p2", "g.txt">> :> 7),
   Project |-> (<<"a.txt">> :> 10) @@ (<<"sub", "b.txt">> :> 20),
   Wide |-> (<<"d1", "f.txt">> :> 5)]

(***************************************************************************)
(* os.path helpers on relative paths.                                      *)
(***************************************************************************)
basename(p) == p[Len(p)]

dirname(p) == SubSeq(p, 1, Len(p) - 1)

\* item['rel_path'].count(os.sep)
depth(p) == Len(p) - 1

\* os.path.dirname(rel_path) or '.'
parent_path(p) == dirname(p)

(***************************************************************************)
(* os.walk(folder_path), top-down: a directory's entry comes before the    *)
(* entries of its sub-directories.  WalkDirs is the list of directories    *)
(* visited, in order; file_items and folder_items are the two inventories  *)
(* upload_folder builds from it (lines 127-149).                           *)
(***************************************************************************)
RECURSIVE WalkFrom(_, _)
WalkFrom(f, stack) ==
  IF stack = << >> THEN << >>
  ELSE LET d == Head(stack)
           subs == [i \in 1..Len(listdir[f][d].dirs) |-> Append(d, listdir[f][d].dirs[i])]
       IN <<d>> \o WalkFrom(f, subs \o Tail(stack))

WalkDirs(f) == WalkFrom(f, <<Dot>>)

RECURSIVE Flatten(_)
Flatten(ss) == IF ss = << >> THEN << >> ELSE Head(ss) \o Flatten(Tail(ss))

file_items(f) ==
  Flatten([k \in 1..Len(WalkDirs(f)) |->
             LET d == WalkDirs(f)[k]
             IN [i \in 1..Len(listdir[f][d].files) |-> Append(d, listdir[f][d].files[i])]])

unsorted_folder_items(f) ==
  Flatten([k \in 1..Len(WalkDirs(f)) |->
             LET d == WalkDirs(f)[k]
             IN [i \in 1..Len(listdir[f][d].dirs) |-> Append(d, listdir[f][d].dirs[i])]])

\* list.sort(key=depth): a stable sort, written as an insertion sort.
RECURSIVE InsertByDepth(_, _)
InsertByDepth(p, s) ==
  IF s = << >> THEN <<p>>
  ELSE IF depth(p) < depth(Head(s)) THEN <<p>> \o s
       ELSE <<Head(s)>> \o InsertByDepth(p, Tail(s))

RECURSIVE SortByDepth(_)
SortByDepth(s) ==
  IF s = << >> THEN << >>
  ELSE InsertByDepth(s[Len(s)], SortByDepth(SubSeq(s, 1, Len(s) - 1)))

folder_items(f) == SortByDepth(unsorted_folder_items(f))

SeqToSet(s) == {s[i] : i \in 1..Len(s)}

SelectPaths(s, pp) ==
  LET F[i \in 0..Len(s)] ==
        IF i = 0 THEN << >>
        ELSE IF parent_path(s[i]) = pp THEN Append(F[i - 1], s[i]) ELSE F[i - 1]
  IN F[Len(s)]

\* The keys of folder_groups in insertion order (a dict keeps it): the parent
\* paths in order of first occurrence in the sorted folder_items.
GroupKeys(s) ==
  LET F[i \in 0..Len(s)] ==
        IF i = 0 THEN << >>
        ELSE IF parent_path(s[i]) \in SeqToSet(F[i - 1]) THEN F[i - 1]
             ELSE Append(F[i - 1], parent_path(s[i]))
  IN F[Len(s)]

\* folder_groups.items(): a sequence of [parent_path, items].
folder_groups(f) ==
  LET ks == GroupKeys(folder_items(f))
  IN [k \in 1..Len(ks) |->
        [parent_path |-> ks[k], items |-> SelectPaths(folder_items(f), ks[k])]]

\* os.path.exists(path): False for a symbolic link whose target is gone
exists(f, x) == x \in DOMAIN getsize[f]

\* get_folder_size: the sum of the sizes of the files of the walk that exist.
get_folder_size(f) ==
  LET fs == file_items(f)
      S[i \in 0..Len(fs)] ==
        IF i = 0 THEN 0
        ELSE IF exists(f, fs[i]) THEN S[i - 1] + getsize[f][fs[i]] ELSE S[i - 1]
  IN S[Len(fs)]

\* upload_folder, lines 126-138: the scan calls os.path.getsize on every file
\* name of the walk, with no test before it; the call raises for a link whose
\* target is gone
scan_raises(f) == \E x \in SeqToSet(file_items(f)) : ~exists(f, x)

\* The inventories of the pending folders, computed once (the trees do not change).
FileItems == [f \in AllFolders |-> file_items(f)]

FolderGroups == [f \in AllFolders |-> folder_groups(f)]

FolderSize == [f \in AllFolders |-> get_folder_size(f)]


(***************************************************************************)
(* State.                                                                  *)
(*                                                                         *)
(* Persistent (survives the process): the remote store, the ledger file    *)
(* data/uploaded_folders.csv, the directories data/to_upload and           *)
(* data/uploaded, the folders' modification times and the wall clock.      *)
(***************************************************************************)
VARIABLES
  remote,            \* the Drive objects: records [id, name, parent, kind]
  nextId,            \* the number of the next id the service hands out
  ledger,            \* [state: "missing" | "corrupt" | "table", rows: Seq(row)]
  toUpload,          \* names of the folders in data/to_upload
  uploaded,          \* names of the folders in data/uploaded
  mtime,             \* os.path.getmtime of each pending folder
  now,               \* the clock read by datetime.now(): one tick per invocation
  exit_code,         \* how the last process ended (0, or 1 for an abort or a kill)
  runs_left,         \* invocations still to come
  budget             \* faults the environment may still inject

(***************************************************************************)
(* The process running upload_all_folders (volatile).                      *)
(***************************************************************************)
VARIABLES
  pc,                \* where the coordinating thread is
  force,             \* the --force flag
  workers,           \* the --workers value
  timeout_occurred,  \* upload_all.py:21
  folders,           \* the sorted list of upload_all.py:73-82
  fi,                \* index of the folder of the for loop of line 95
  folder_cache,      \* drive_api.py:67
  folder_id,         \* the remote id of the folder's own root
  folder_ids,        \* folder_uploader.py:168
  parent_id,         \* the local parent_id of upload_folder's group loop
  gi,                \* index of the group of the loop of line 173
  ni,                \* index of the item inside the group / results / batch
  created_folders,   \* drive_api.py:199
  foc,               \* the find_or_create_folder call in progress
  bi,                \* i of the batch loop of line 215
  pool,              \* parallel_upload_files: [submitted, threads, fault]
  uf,                \* per file of the batch: the upload_file call on it
  results            \* the worker outcomes in completion order

(***************************************************************************)
(* History variables (observers, never read by the program's actions).     *)
(***************************************************************************)
VARIABLES
  lastCall,          \* the last remote call issued
  touched,           \* folders that received a remote call in this invocation
  selected,          \* folders get_folders_to_upload returned in this invocation
  failed,            \* files of the current folder whose last upload ended in error
  uf_calls,          \* upload_file invocations per file of the current folder
  returned,          \* the ids upload_file returned, per file of the current folder
  fellback,          \* the current folder's batch took the sequential fallback
  ledger0,           \* the ledger file when this invocation started
  last_record        \* what the last record_folder_upload call did

persist == <<remote, nextId, ledger, toUpload, uploaded, mtime, now, exit_code>>
env == <<runs_left, budget>>
hier == <<folder_id, folder_ids, parent_id, gi, ni, created_folders, foc>>
xfer == <<bi, pool, uf, results>>
runv == <<force, workers, folders, fi>>
hist == <<lastCall, touched, selected, failed, uf_calls, returned, fellback, ledger0, last_record>>
vars == <<persist, env, pc, runv, timeout_occurred, folder_cache, hier, xfer, hist>>

cur == folders[fi]          \* the folder being uploaded

NoCall == [op |-> "none", folder |-> None, node |-> Dot, parent |-> None,
           known |-> TRUE, expected |-> None, root |-> None, status |-> 0]
NoFoc == [phase |-> "off", name |-> None, parent |-> None, node |-> Dot]
NoPool == [submitted |-> 0, threads |-> 0, fault |-> FALSE]
NoRecord == [called |-> FALSE, ok |-> FALSE, corrupt |-> FALSE, folder |-> None,
             id |-> None, hash |-> None, before |-> << >>]
EmptyMap == [x \in {} |-> None]
MissingLedger == [state |-> "missing", rows |-> << >>]
CorruptLedger == [state |-> "corrupt", rows |-> << >>]

(***************************************************************************)
(* The remote service.                                                     *)
(***************************************************************************)
IdOf(n) == "id" \o ToString(n)

\* a variant of the query that matches nothing
list_folders_none(name, parent) == {}

\* files().list(q="name=.. and mimeType=folder [and 'parent' in parents] and trashed=false")
list_folders(name, parent) ==
  {o \in remote : /\ o.name = name
                  /\ o.kind = "folder"
                  /\ (parent = None \/ o.parent = parent)}

\* files().list(q="name = .. and 'parent' in parents and trashed = false"): any kind
list_children(name, parent) ==
  {o \in remote : o.name = name /\ o.parent = parent}

\* a variant that sends no 'parents': Drive puts the object in the root
NewObjectAtRoot(name, parent, kind) ==
  [id |-> IdOf(nextId), name |-> name, parent |-> DriveRoot, kind |-> kind]

\* files().create(body={name, [mimeType], [parents]})
NewObject(name, parent, kind) ==
  [id |-> IdOf(nextId), name |-> name,
   parent |-> IF parent = None THEN DriveRoot ELSE parent, kind |-> kind]

\* cache_key = f"{folder_name}_{parent_id}"
cache_key(name, parent) == name \o "_" \o parent

\* dict.get(key): None when the key is absent
Get(map, key) == IF key \in DOMAIN map THEN map[key] ELSE None

(***************************************************************************)
(* The ledger (core/folder_uploader.py).                                   *)
(***************************************************************************)
abspath(f) == "/data/to_upload/" \o f

\* f"{folder_path}_{folder_mtime}", the text md5 digests; mtime is a float
hash_input(f, mt) == abspath(f) \o "_" \o ToString(mt) \o ".0"

\* generate_folder_hash raises ValueError for a path that does not exist
generate_folder_hash(f) ==
  IF f \in toUpload THEN [raised |-> FALSE, value |-> hash_input(f, mtime[f])]
  ELSE [raised |-> TRUE, value |-> None]

\* pd.read_csv: raises on a file it cannot parse (or df['folder_hash'] does)
read_csv(l) ==
  IF l.state = "table" THEN [raised |-> FALSE, value |-> l.rows]
  ELSE [raised |-> TRUE, value |-> << >>]

Hashes(rows) == {rows[i].folder_hash : i \in 1..Len(rows)}

\* the same without the try/except of lines 57-68
is_folder_uploaded_unguarded(l, f) ==
  IF l.state = "missing" THEN [raised |-> FALSE, value |-> FALSE]
  ELSE LET h == generate_folder_hash(f)
           df == read_csv(l)
       IN IF h.raised \/ df.raised THEN [raised |-> TRUE, value |-> FALSE]
          ELSE [raised |-> FALSE, value |-> h.value \in Hashes(df.value)]

is_folder_uploaded(l, f) ==
  IF l.state = "missing" THEN [raised |-> FALSE, value |-> FALSE]
  ELSE LET h == generate_folder_hash(f)
           df == read_csv(l)
       IN IF h.raised \/ df.raised THEN [raised |-> FALSE, value |-> FALSE]
          ELSE [raised |-> FALSE, value |-> h.value \in Hashes(df.value)]

new_row(f, id, h) ==
  [folder_path |-> abspath(f), folder_name |-> f, folder_hash |-> h,
   drive_folder_id |-> id, upload_time |-> now]

\* df.loc[df['folder_hash'] == folder_hash, ...] = ...: every matching row
update_rows(rows, h, id) ==
  [i \in 1..Len(rows) |->
     IF rows[i].folder_hash = h
     THEN [rows[i] EXCEPT !.drive_folder_id = id, !.upload_time = now]
     ELSE rows[i]]

\* a variant that always appends
upsert_append(rows, f, id, h) == Append(rows, new_row(f, id, h))

\* lines 97-104
upsert(rows, f, id, h) ==
  IF h \in Hashes(rows) THEN update_rows(rows, h, id)
  ELSE Append(rows, new_row(f, id, h))

\* a variant without lines 88-92: a missing file is read like any other
record_folder_upload_no_create(l, f, id) ==
  LET h == generate_folder_hash(f)
      df == read_csv(l)
  IN IF h.raised \/ df.raised THEN [write |-> FALSE, rows |-> << >>]
     ELSE [write |-> TRUE, rows |-> upsert(df.value, f, id, h.value)]

\* record_folder_upload of core/folder_uploader.py, up to the write: what it
\* tries to write ("write" FALSE: it returns False without writing).
record_folder_upload(l, f, id) ==
  LET h == generate_folder_hash(f)
      df == read_csv(l)
  IN IF h.raised THEN [write |-> FALSE, rows |-> << >>]
     ELSE IF l.state = "missing"
          THEN [write |-> TRUE, rows |-> <<new_row(f, id, h.value)>>]
          ELSE IF df.raised THEN [write |-> FALSE, rows |-> << >>]
               ELSE [write |-> TRUE, rows |-> upsert(df.value, f, id, h.value)]

\* record_folder_upload of the script src/gdrive_uploader.py: a table it
\* cannot read is replaced by a new one holding the new row.
script_record_folder_upload(l, f, id) ==
  LET h == generate_folder_hash(f)
      df == read_csv(l)
  IN IF l.state = "missing" \/ df.raised
     THEN [write |-> TRUE, rows |-> <<new_row(f, id, h.value)>>]
     ELSE [write |-> TRUE, rows |-> upsert(df.value, f, id, h.value)]

\* df.to_csv(path) that fails or is cut short: open(path, 'w') may not have
\* happened (the old file stays), or the file holds a prefix of the new text:
\* nothing parsable, or the header and some of the rows.
Prefixes(rows) == {SubSeq(rows, 1, k) : k \in 0..Len(rows)}

broken_write(l, rows) ==
  {l, CorruptLedger} \cup {[state |-> "table", rows |-> r] : r \in Prefixes(rows) \ {rows}}


(***************************************************************************)
(* upload_all_folders (cli/upload_all.py).                                 *)
(***************************************************************************)
RECURSIVE InsertBySize(_, _)
InsertBySize(f, s) ==
  IF s = << >> THEN <<f>>
  ELSE IF FolderSize[f] < FolderSize[Head(s)] THEN <<f>> \o s
       ELSE <<Head(s)>> \o InsertBySize(f, Tail(s))

RECURSIVE SortBySize(_)
SortBySize(s) ==
  IF s = << >> THEN << >>
  ELSE InsertBySize(s[Len(s)], SortBySize(SubSeq(s, 1, Len(s) - 1)))

\* a variant that ignores the ledger
get_folders_to_upload_all(fc) ==
  LET F[i \in 0..Len(FolderNames)] ==
        IF i = 0 THEN << >>
        ELSE IF FolderNames[i] \in toUpload THEN Append(F[i - 1], FolderNames[i])
             ELSE F[i - 1]
  IN F[Len(FolderNames)]

\* lines 32-55: the pending directories, filtered through the ledger unless forced
get_folders_to_upload(fc) ==
  LET F[i \in 0..Len(FolderNames)] ==
        IF i = 0 THEN << >>
        ELSE IF /\ FolderNames[i] \in toUpload
                /\ (fc \/ ~is_folder_uploaded(ledger, FolderNames[i]).value)
             THEN Append(F[i - 1], FolderNames[i])
             ELSE F[i - 1]
  IN F[Len(FolderNames)]

\* an exception of is_folder_uploaded would leave get_folders_to_upload uncaught
lookup_raises(fc) ==
  \E f \in toUpload : ~fc /\ is_folder_uploaded(ledger, f).raised

ZeroCalls == [f \in {} |-> 0]

NoReturns == [f \in {} |-> << >>]

\* the per-process state before upload_all_folders has done anything
FreshProcess ==
  /\ timeout_occurred' = FALSE
  /\ folder_cache' = EmptyMap
  /\ folder_id' = None
  /\ folder_ids' = EmptyMap
  /\ parent_id' = None
  /\ gi' = 0
  /\ ni' = 0
  /\ created_folders' = EmptyMap
  /\ foc' = NoFoc
  /\ bi' = 0
  /\ pool' = NoPool
  /\ uf' = EmptyMap
  /\ results' = << >>
  /\ lastCall' = NoCall
  /\ touched' = {}
  /\ failed' = {}
  /\ uf_calls' = ZeroCalls
  /\ returned' = NoReturns
  /\ fellback' = FALSE
  /\ last_record' = NoRecord

\* python -m ... upload_all [--force] [--workers w]: lines 58-86
RunStart(fc, w) ==
  /\ pc = "idle"
  /\ runs_left > 0
  /\ runs_left' = runs_left - 1
  /\ now' = now + 1
  /\ force' = fc
  /\ workers' = w
  /\ ledger0' = ledger
  /\ FreshProcess
  /\ fi' = 1
  /\ IF lookup_raises(fc)
     THEN /\ folders' = << >>
          /\ selected' = {}
          /\ pc' = "idle"
          /\ exit_code' = 1
     ELSE /\ folders' = SortBySize(get_folders_to_upload(fc))
          /\ selected' = SeqToSet(get_folders_to_upload(fc))
          /\ pc' = IF get_folders_to_upload(fc) = << >> THEN "idle" ELSE "auth"
          /\ exit_code' = 0
  /\ UNCHANGED <<remote, nextId, ledger, toUpload, uploaded, mtime, budget>>

\* a variant that goes on to the folders without a service handle
after_authenticate_anyway(ok) == "loop"

\* where line 91 leads: to the for loop of line 94, or out of the function
after_authenticate(ok) == IF ok THEN "loop" ELSE "idle"

\* lines 88-92; authenticate() calls sys.exit(1) without credentials
Authenticate ==
  /\ pc = "auth"
  /\ \/ /\ pc' = after_authenticate(TRUE)
        /\ UNCHANGED <<budget, exit_code>>
     \/ /\ budget > 0
        /\ budget' = budget - 1
        /\ pc' = after_authenticate(FALSE)
        /\ exit_code' = 1
  /\ UNCHANGED <<remote, nextId, ledger, toUpload, uploaded, mtime, now, runs_left, runv,
                 timeout_occurred, folder_cache, hier, xfer, hist>>

\* lines 95-98 and 147-160: the top of the for loop
Loop ==
  /\ pc = "loop"
  /\ IF timeout_occurred \/ fi > Len(folders)
     THEN /\ pc' = "idle"
          /\ exit_code' = 0
          /\ UNCHANGED <<hier, xfer, failed, uf_calls, returned, fellback>>
     ELSE /\ pc' = "root"
          /\ exit_code' = exit_code
          /\ folder_id' = None
          /\ folder_ids' = EmptyMap
          /\ parent_id' = None
          /\ gi' = 0
          /\ ni' = 0
          /\ created_folders' = EmptyMap
          /\ foc' = NoFoc
          /\ bi' = 0
          /\ pool' = NoPool
          /\ uf' = EmptyMap
          /\ results' = << >>
          /\ failed' = {}
          /\ uf_calls' = [x \in SeqToSet(FileItems[cur]) |-> 0]
          /\ returned' = [x \in SeqToSet(FileItems[cur]) |-> << >>]
          /\ fellback' = FALSE
  /\ UNCHANGED <<remote, nextId, ledger, toUpload, uploaded, mtime, now, runs_left,
                 budget, runv, timeout_occurred, folder_cache, lastCall, touched,
                 selected, ledger0, last_record>>

\* the process ends on an exception: exit code 1, its memory gone
ProcessEnds ==
  /\ pc' = "idle"
  /\ exit_code' = 1
  /\ FreshProcess
  /\ folders' = << >>
  /\ fi' = 1
  /\ UNCHANGED <<remote, nextId, ledger, toUpload, uploaded, mtime, now, runs_left,
                 budget, force, workers, selected, ledger0>>

\* ThreadPoolExecutor.__exit__ is shutdown(wait=True): it returns once every
\* submitted task has run
tasks_pending(tasks) == \E x \in DOMAIN tasks : tasks[x].st # "done"

\* Ctrl-C: KeyboardInterrupt is raised in the main thread.  Lines 150-153 end
\* the run with exit code 1; raised inside parallel_upload_files, the exception
\* first leaves the with block of drive_api.py line 275, which waits for the
\* worker threads.
KeyboardInterrupt ==
  /\ pc \notin {"idle", "drain"}
  /\ IF pc = "pool" /\ tasks_pending(uf)
     THEN /\ pc' = "drain"
          /\ UNCHANGED <<persist, env, runv, timeout_occurred, folder_cache, hier, xfer,
                         hist>>
     ELSE ProcessEnds

\* the tasks are through: the KeyboardInterrupt reaches lines 150-153
Drained ==
  /\ pc = "drain"
  /\ ~tasks_pending(uf)
  /\ ProcessEnds

\* timeout_handler, lines 23-29: SIGALRM sets the flag
timeout_handler ==
  /\ pc # "idle"
  /\ ~timeout_occurred
  /\ timeout_occurred' = TRUE
  /\ UNCHANGED <<persist, env, pc, runv, folder_cache, hier, xfer, hist>>

\* the process is killed (or the machine stops) at an arbitrary point
Crash ==
  /\ pc # "idle"
  /\ pc' = "idle"
  /\ exit_code' = 1
  /\ FreshProcess
  /\ folders' = << >>
  /\ fi' = 1
  /\ UNCHANGED <<remote, nextId, ledger, toUpload, uploaded, mtime, now, runs_left,
                 budget, force, workers, selected, ledger0>>

\* between invocations the operator changes a pending folder: its mtime moves
Touch(f) ==
  /\ pc = "idle"
  /\ now >= 1
  /\ f \in toUpload
  /\ mtime[f] <= MaxTouch
  /\ mtime' = [mtime EXCEPT ![f] = @ + 1]
  /\ UNCHANGED <<remote, nextId, ledger, toUpload, uploaded, now, runs_left, exit_code,
                 budget, pc, runv, timeout_occurred, folder_cache, hier, xfer, hist>>


(***************************************************************************)
(* The hierarchy stage of upload_folder (core/folder_uploader.py 114-208)  *)
(* with find_or_create_folder and batch_create_folders (core/drive_api.py).*)
(*                                                                         *)
(* pc = "root"      find_or_create_folder of line 119                      *)
(* pc = "group"     the head of the loop of line 173                       *)
(* pc = "small"     batch_create_folders, len(folders) <= 5 (line 203)     *)
(* pc = "big"       batch_create_folders, the create of line 223           *)
(* pc = "bigfoc"    batch_create_folders, find_or_create_folder, line 229  *)
(* pc = "fallback"  upload_folder's except branch, lines 197-208           *)
(***************************************************************************)
group == FolderGroups[cur][gi]

item == group.items[ni]

FocSites == {"root", "small", "bigfoc", "fallback"}

\* a variant of lines 188-195 that starts from an empty dictionary
store_folder_ids_afresh(ids, items, created) ==
  LET F[i \in 0..Len(items)] ==
        IF i = 0 THEN EmptyMap
        ELSE IF basename(items[i]) \in DOMAIN created
             THEN (items[i] :> created[basename(items[i])]) @@ F[i - 1]
             ELSE F[i - 1]
  IN F[Len(items)]

\* lines 188-195: the ids of the names batch_create_folders returned
store_folder_ids(ids, items, created) ==
  LET F[i \in 0..Len(items)] ==
        IF i = 0 THEN ids
        ELSE IF basename(items[i]) \in DOMAIN created
             THEN (items[i] :> created[basename(items[i])]) @@ F[i - 1]
             ELSE F[i - 1]
  IN F[Len(items)]

\* a variant of lines 175-179 without the substitution
group_parent_unchecked(ids, pp, root) == Get(ids, pp)

\* lines 175-179: the parent's id, or the root folder's when it is missing
group_parent(ids, pp, root) ==
  IF Get(ids, pp) = None THEN root ELSE ids[pp]

\* find_or_create_folder returned id to its caller
FocReturn(name, node, id) ==
  /\ foc' = NoFoc
  /\ CASE pc = "root" ->
            /\ folder_id' = id
            /\ folder_ids' = (Dot :> id)
            /\ gi' = 1
            /\ pc' = IF scan_raises(cur) THEN "scanfail" ELSE "group"
            /\ UNCHANGED <<parent_id, ni, created_folders>>
       [] pc = "small" ->
            /\ created_folders' = (name :> id) @@ created_folders
            /\ ni' = ni + 1
            /\ UNCHANGED <<pc, folder_id, folder_ids, parent_id, gi>>
       [] pc = "bigfoc" ->
            /\ created_folders' = (name :> id) @@ created_folders
            /\ ni' = ni + 1
            /\ pc' = "big"
            /\ UNCHANGED <<folder_id, folder_ids, parent_id, gi>>
       [] pc = "fallback" ->
            /\ folder_ids' = (node :> id) @@ folder_ids
            /\ ni' = ni + 1
            /\ UNCHANGED <<pc, folder_id, parent_id, gi, created_folders>>
       [] pc = "direct" ->
            /\ folder_id' = id
            /\ created_folders' = (name :> id)
            /\ ni' = ni + 1
            /\ UNCHANGED <<pc, folder_ids, parent_id, gi>>

\* find_or_create_folder raised
FocRaise ==
  /\ foc' = NoFoc
  /\ CASE pc = "root" ->
            /\ pc' = "abort"
            /\ UNCHANGED <<folder_id, folder_ids, parent_id, gi, ni, created_folders>>
       [] pc = "small" ->
            /\ pc' = "fallback"
            /\ ni' = 1
            /\ UNCHANGED <<folder_id, folder_ids, parent_id, gi, created_folders>>
       [] pc = "bigfoc" ->
            /\ pc' = "big"
            /\ ni' = ni + 1
            /\ UNCHANGED <<folder_id, folder_ids, parent_id, gi, created_folders>>
       [] pc = "fallback" ->
            /\ ni' = ni + 1
            /\ UNCHANGED <<pc, folder_id, folder_ids, parent_id, gi, created_folders>>
       [] pc = "direct" ->
            /\ folder_id' = None
            /\ created_folders' = EmptyMap
            /\ ni' = ni + 1
            /\ UNCHANGED <<pc, folder_ids, parent_id, gi>>

\* A remote call is issued: what it is about, the parent id it names, whether the
\* node's parent directory had its id in folder_ids at that moment (and which),
\* the id of the folder's own root, and the HTTP status the call was refused
\* with when line 172 looks at it (0 otherwise).
Refused(op, node, parent, status) ==
  /\ lastCall' = [op |-> op, folder |-> cur, node |-> node, parent |-> parent,
                  known |-> (node = Dot \/ parent_path(node) \in DOMAIN folder_ids),
                  expected |-> IF node = Dot THEN None
                               ELSE Get(folder_ids, parent_path(node)),
                  root |-> folder_id, status |-> status]
  /\ touched' = touched \cup {cur}

\* a remote call whose HTTP status, if it failed, the program does not look at
Called(op, node, parent) == Refused(op, node, parent, 0)

\* the statuses of line 172
Transient == {429, 500, 502, 503, 504}

\* other statuses a call can be refused with
Statuses == Transient \cup {400, 403, 404}

\* a remote call that raised HttpError where no except clause reads the status
\* (lines 81, 102, 111 and 223 of drive_api.py): any status may have come
Failed(op, node, parent) ==
  \E status \in Statuses : Refused(op, node, parent, status)

\* a variant of line 75 that never finds the key
in_cache_never(cache, key) == FALSE

\* line 75: cache_key in folder_cache
in_cache(cache, key) == key \in DOMAIN cache

\* find_or_create_folder, lines 71-76: the call and its cache look-up
FocCall ==
  /\ pc \in FocSites
  /\ foc.phase = "off"
  /\ pc # "root" => ni <= Len(group.items)
  /\ LET name == IF pc = "root" THEN cur ELSE basename(item)
         parent == IF pc = "root" THEN None ELSE parent_id
         node == IF pc = "root" THEN Dot ELSE item
     IN IF in_cache(folder_cache, cache_key(name, parent))
        THEN FocReturn(name, node, folder_cache[cache_key(name, parent)])
        ELSE /\ foc' = [phase |-> "list", name |-> name, parent |-> parent, node |-> node]
             /\ UNCHANGED <<pc, folder_id, folder_ids, parent_id, gi, ni, created_folders>>
  /\ UNCHANGED <<persist, env, runv, timeout_occurred, folder_cache, xfer, hist>>


\* find_or_create_folder called by a program that imports the client, with a
\* name and a parent id of its own choice (pc = "direct"): lines 71-76.  The
\* caller keeps the parent it asked for in parent_id and gets the answer in
\* folder_id and created_folders.
DirectCall(name, parent) ==
  /\ pc = "direct"
  /\ foc.phase = "off"
  /\ ni <= MaxCacheCalls
  /\ parent_id' = parent
  /\ IF in_cache(folder_cache, cache_key(name, parent))
     THEN /\ foc' = NoFoc
          /\ folder_id' = folder_cache[cache_key(name, parent)]
          /\ created_folders' = (name :> folder_cache[cache_key(name, parent)])
          /\ ni' = ni + 1
     ELSE /\ foc' = [phase |-> "list", name |-> name, parent |-> parent, node |-> Dot]
          /\ UNCHANGED <<folder_id, created_folders, ni>>
  /\ UNCHANGED <<persist, env, runv, pc, timeout_occurred, folder_cache, folder_ids, gi,
                 xfer, hist>>

\* find_or_create_folder, lines 78-90: the query, and a match's id
FocList ==
  /\ foc.phase = "list"
  /\ \/ /\ list_folders(foc.name, foc.parent) # {}
        /\ Called("list_folder", foc.node, foc.parent)
        /\ \E o \in list_folders(foc.name, foc.parent) :
             /\ folder_cache' = (cache_key(foc.name, foc.parent) :> o.id) @@ folder_cache
             /\ FocReturn(foc.name, foc.node, o.id)
        /\ UNCHANGED budget
     \/ /\ list_folders(foc.name, foc.parent) = {}
        /\ Called("list_folder", foc.node, foc.parent)
        /\ foc' = [foc EXCEPT !.phase = "create"]
        /\ UNCHANGED <<budget, folder_cache, pc, folder_id, folder_ids, parent_id, gi, ni,
                       created_folders>>
     \/ /\ budget > 0
        /\ budget' = budget - 1
        /\ Failed("list_folder", foc.node, foc.parent)
        /\ FocRaise
        /\ UNCHANGED folder_cache
  /\ UNCHANGED <<persist, runs_left, runv, timeout_occurred, xfer, selected, failed,
                 uf_calls, returned, fellback, ledger0, last_record>>

\* find_or_create_folder, lines 92-105: the create.  A failed call may have
\* created the folder all the same (the answer was lost).
FocCreate ==
  /\ foc.phase = "create"
  /\ \/ /\ Called("create_folder", foc.node, foc.parent)
        /\ remote' = remote \cup {NewObject(foc.name, foc.parent, "folder")}
        /\ nextId' = nextId + 1
        /\ folder_cache' = (cache_key(foc.name, foc.parent) :> IdOf(nextId)) @@ folder_cache
        /\ FocReturn(foc.name, foc.node, IdOf(nextId))
        /\ UNCHANGED budget
     \/ /\ budget > 0
        /\ budget' = budget - 1
        /\ Failed("create_folder", foc.node, foc.parent)
        /\ FocRaise
        /\ \/ UNCHANGED <<remote, nextId>>
           \/ /\ remote' = remote \cup {NewObject(foc.name, foc.parent, "folder")}
              /\ nextId' = nextId + 1
        /\ UNCHANGED folder_cache
  /\ UNCHANGED <<ledger, toUpload, uploaded, mtime, now, runs_left, exit_code, runv,
                 timeout_occurred, xfer, selected, failed, uf_calls, returned, fellback, ledger0,
                 last_record>>

\* a variant in which the except branch returns normally
exit_status_success(raised) == 0

\* lines 154-156: sys.exit(1) after an exception; 0 when the function returns
exit_status(raised) == IF raised THEN 1 ELSE 0

\* upload_all.py 154-156: the exception that left upload_folder (from line 117,
\* or from the scan of lines 126-138) ends the run, exit code 1
Abort ==
  /\ pc \in {"abort", "scanfail"}
  /\ pc' = "idle"
  /\ exit_code' = exit_status(TRUE)
  /\ UNCHANGED <<remote, nextId, ledger, toUpload, uploaded, mtime, now, runs_left,
                 budget, runv, timeout_occurred, folder_cache, hier, xfer, hist>>

\* a variant of the loop of line 173 that stops after the first group
groups_done_early(g, groups) == g > 1

\* the for loop of line 173 has been through every group
groups_done(g, groups) == g > Len(groups)

\* lines 173-185: the next group, its parent id, the call of batch_create_folders
GroupStep ==
  /\ pc = "group"
  /\ IF groups_done(gi, FolderGroups[cur])
     THEN /\ pc' = "files"
          /\ bi' = 0
          /\ UNCHANGED <<parent_id, ni, created_folders>>
     ELSE /\ parent_id' = group_parent(folder_ids, group.parent_path, folder_id)
          /\ created_folders' = EmptyMap
          /\ ni' = 1
          /\ pc' = IF Len(group.items) <= small_group_limit THEN "small" ELSE "big"
          /\ bi' = bi
  /\ UNCHANGED <<persist, env, runv, timeout_occurred, folder_cache, folder_id,
                 folder_ids, gi, foc, pool, uf, results, hist>>

\* batch_create_folders returned (line 206 or 234); lines 187-195
BatchReturn ==
  /\ pc \in {"small", "big"}
  /\ foc.phase = "off"
  /\ ni > Len(group.items)
  /\ folder_ids' = store_folder_ids(folder_ids, group.items, created_folders)
  /\ gi' = gi + 1
  /\ pc' = "group"
  /\ UNCHANGED <<persist, env, runv, timeout_occurred, folder_cache, folder_id, parent_id,
                 ni, created_folders, foc, xfer, hist>>

\* batch_create_folders, lines 214-226: more than five names, one create each
BigCreate ==
  /\ pc = "big"
  /\ ni <= Len(group.items)
  /\ \/ /\ Called("create_folder", item, parent_id)
        /\ remote' = remote \cup {NewObject(basename(item), parent_id, "folder")}
        /\ nextId' = nextId + 1
        /\ created_folders' = (basename(item) :> IdOf(nextId)) @@ created_folders
        /\ ni' = ni + 1
        /\ UNCHANGED <<budget, pc>>
     \/ /\ budget > 0
        /\ budget' = budget - 1
        /\ Failed("create_folder", item, parent_id)
        /\ pc' = "bigfoc"
        /\ \/ UNCHANGED <<remote, nextId>>
           \/ /\ remote' = remote \cup {NewObject(basename(item), parent_id, "folder")}
              /\ nextId' = nextId + 1
        /\ UNCHANGED <<created_folders, ni>>
  /\ UNCHANGED <<ledger, toUpload, uploaded, mtime, now, runs_left, exit_code, runv,
                 timeout_occurred, folder_cache, folder_id, folder_ids, parent_id, gi,
                 foc, xfer, selected, failed, uf_calls, returned, fellback, ledger0, last_record>>

\* upload_folder's except branch is done with the group (line 208)
FallbackDone ==
  /\ pc = "fallback"
  /\ foc.phase = "off"
  /\ ni > Len(group.items)
  /\ gi' = gi + 1
  /\ pc' = "group"
  /\ UNCHANGED <<persist, env, runv, timeout_occurred, folder_cache, folder_id,
                 folder_ids, parent_id, ni, created_folders, foc, xfer, hist>>


(***************************************************************************)
(* The transfer stage of upload_folder (lines 210-267) with                *)
(* parallel_upload_files, upload_file and check_file_exists.               *)
(*                                                                         *)
(* pc = "files"   the head of the batch loop of line 215                   *)
(* pc = "pool"    inside parallel_upload_files: the workers run            *)
(* pc = "drain"   KeyboardInterrupt inside parallel_upload_files: the      *)
(*                executor's shutdown waits for the submitted tasks        *)
(* pc = "retry"   the loop over the results of lines 223-244               *)
(* pc = "seq"     the sequential fallback of lines 245-265                 *)
(*                                                                         *)
(* uf[x] is the upload_file call on file x: st is "queued" (submitted, no  *)
(* thread yet), "probe" (line 122), "create" (line 170), "reprobe" (line   *)
(* 180) or "done"; rc is retry_count; parent the parent_id it was given.   *)
(***************************************************************************)
Min(a, b) == IF a < b THEN a ELSE b

batch == SubSeq(FileItems[cur], bi + 1, Min(bi + batch_size, Len(FileItems[cur])))

Running == {"probe", "create", "reprobe"}

\* a variant of the worker that reports success whatever happened
outcome_success(x, ok) == [path |-> x, success |-> TRUE]

\* upload_file_worker, lines 253-272: the outcome the worker returns for file x
outcome(x, ok) == [path |-> x, success |-> ok]

\* a variant of the executor that starts a thread for every task
pool_threads_unbounded(max_workers, n) == n

\* ThreadPoolExecutor(max_workers) of line 275: a submit starts a new thread
\* only while fewer than max_workers exist
pool_threads(max_workers, n) == Min(max_workers, n)

\* range(0, len(file_items), batch_size) of line 215, for n files
batch_starts(n) == {b \in 0..n : b % batch_size = 0 /\ b < n}

\* the indices of file_items[i:i+batch_size] of line 216, for i = b and n files
batch_range(b, n) == (b + 1)..Min(b + batch_size, n)

\* the worker threads run: in the with block of drive_api.py line 275, or in
\* its __exit__ after an exception in the coordinating thread
PoolStages == {"pool", "drain"}

Idle(x) == [st |-> "done", rc |-> 0, parent |-> None]

\* the file the coordinating thread is uploading itself
CurFile == IF pc = "retry" THEN results[ni].path ELSE batch[ni]

Active(x) ==
  /\ x \in DOMAIN uf
  /\ uf[x].st \in Running
  /\ \/ pc \in PoolStages
     \/ pc \in {"retry", "seq"} /\ ni <= Len(IF pc = "retry" THEN results ELSE batch)
                                /\ x = CurFile

\* lines 215-216 and 267: the next batch, or upload_folder returns folder_id
FilesStep ==
  /\ pc = "files"
  /\ bi >= Len(FileItems[cur])
  /\ pc' = "record"
  /\ UNCHANGED <<persist, env, runv, timeout_occurred, folder_cache, hier, xfer, hist>>

\* parallel_upload_files, lines 275-280: the pool and the submits.  The pool
\* cannot be built with max_workers <= 0 (ValueError); a submit raises when its
\* thread cannot be started, after it queued its task: with k - 1 threads the
\* first k tasks still run before the exception leaves the with block.
Dispatch ==
  /\ pc = "files"
  /\ bi < Len(FileItems[cur])
  /\ results' = << >>
  /\ \/ /\ workers <= 0
        /\ pool' = NoPool
        /\ uf' = EmptyMap
        /\ pc' = "seq"
        /\ ni' = 1
        /\ fellback' = TRUE
        /\ UNCHANGED budget
     \/ /\ workers >= 1
        /\ pool' = [submitted |-> Len(batch), threads |-> pool_threads(workers, Len(batch)),
                    fault |-> FALSE]
        /\ uf' = [x \in SeqToSet(batch) |-> [st |-> "queued", rc |-> 0, parent |-> None]]
        /\ pc' = "pool"
        /\ UNCHANGED <<budget, ni, fellback>>
     \/ /\ workers >= 1
        /\ budget > 0
        /\ budget' = budget - 1
        /\ \E k \in 1..Min(workers, Len(batch)) :
             /\ pool' = [submitted |-> IF k = 1 THEN 0 ELSE k, threads |-> k - 1,
                         fault |-> TRUE]
             /\ uf' = [x \in {batch[i] : i \in 1..(IF k = 1 THEN 0 ELSE k)} |->
                         [st |-> "queued", rc |-> 0, parent |-> None]]
        /\ pc' = "pool"
        /\ UNCHANGED <<ni, fellback>>
  /\ UNCHANGED <<persist, runs_left, runv, timeout_occurred, folder_cache, folder_id,
                 folder_ids, parent_id, gi, created_folders, foc, bi, lastCall, touched,
                 selected, failed, uf_calls, returned, ledger0, last_record>>

\* a variant of upload_file_worker that falls back to the root folder's id
worker_parent_root(ids, x) ==
  IF Get(ids, parent_path(x)) = None THEN Get(ids, Dot) ELSE ids[parent_path(x)]

\* lines 247-251 (and 231-235, 251-255): the file's parent id from folder_ids
worker_parent(ids, x) == Get(ids, parent_path(x))

\* upload_file_worker, lines 241-257: a thread takes the next queued task
WorkerStart(x) ==
  /\ pc \in PoolStages
  /\ x \in DOMAIN uf
  /\ uf[x].st = "queued"
  /\ \A i \in 1..Len(batch) :
       (batch[i] \in DOMAIN uf /\ uf[batch[i]].st = "queued") =>
          \E j \in 1..i : batch[j] = x
  /\ Cardinality({y \in DOMAIN uf : uf[y].st \in Running}) < pool.threads
  /\ IF worker_parent(folder_ids, x) = None
     THEN /\ uf' = [uf EXCEPT ![x] = Idle(x)]
          /\ results' = Append(results, outcome(x, FALSE))
          /\ failed' = failed \cup {x}
          /\ UNCHANGED uf_calls
     ELSE /\ uf' = [uf EXCEPT ![x] = [st |-> "probe", rc |-> 0,
                                      parent |-> worker_parent(folder_ids, x)]]
          /\ uf_calls' = [uf_calls EXCEPT ![x] = @ + 1]
          /\ UNCHANGED <<results, failed>>
  /\ UNCHANGED <<persist, env, pc, runv, timeout_occurred, folder_cache, hier, bi, pool,
                 lastCall, touched, selected, returned, fellback, ledger0, last_record>>

\* upload_file returned id (lines 125, 183, 194) to the worker (lines 262-266),
\* to the retry of line 238 or to the fallback of line 257
UfReturn(x, id) ==
  /\ uf' = [uf EXCEPT ![x] = Idle(x)]
  /\ returned' = [returned EXCEPT ![x] = Append(@, id)]
  /\ CASE pc \in PoolStages ->
            /\ results' = Append(results, outcome(x, TRUE))
            /\ UNCHANGED <<ni, failed>>
       [] pc = "retry" ->
            /\ ni' = ni + 1
            /\ failed' = failed \ {x}
            /\ UNCHANGED results
       [] pc = "seq" ->
            /\ ni' = ni + 1
            /\ failed' = failed \ {x}
            /\ UNCHANGED results

\* upload_file raised: the worker turns it into a failure outcome (267-272),
\* lines 240-241 and 261-262 print it
UfRaise(x) ==
  /\ uf' = [uf EXCEPT ![x] = Idle(x)]
  /\ UNCHANGED returned
  /\ CASE pc \in PoolStages ->
            /\ results' = Append(results, outcome(x, FALSE))
            /\ failed' = failed \cup {x}
            /\ UNCHANGED ni
       [] pc = "retry" ->
            /\ ni' = ni + 1
            /\ UNCHANGED <<results, failed>>
       [] pc = "seq" ->
            /\ ni' = ni + 1
            /\ failed' = failed \cup {x}
            /\ UNCHANGED results

UfFrame ==
  UNCHANGED <<ledger, toUpload, uploaded, mtime, now, runs_left, exit_code, pc, runv,
              timeout_occurred, folder_cache, folder_id, folder_ids, parent_id, gi,
              created_folders, foc, bi, pool, selected, uf_calls, fellback, ledger0,
              last_record>>

\* a variant of upload_file without the check of lines 121-125
first_probe_blind(name, parent) == {}

\* check_file_exists of line 122: the objects the query matches
first_probe(name, parent) == list_children(name, parent)

\* upload_file, lines 121-125: the existence check before anything is sent
UfProbe(x) ==
  /\ Active(x)
  /\ uf[x].st = "probe"
  /\ \/ /\ Called("probe", x, uf[x].parent)
        /\ \E o \in first_probe(basename(x), uf[x].parent) : UfReturn(x, o.id)
        /\ UNCHANGED budget
     \/ /\ Called("probe", x, uf[x].parent)
        /\ first_probe(basename(x), uf[x].parent) = {}
        /\ uf' = [uf EXCEPT ![x].st = "create"]
        /\ UNCHANGED <<budget, ni, results, failed, returned>>
     \/ /\ budget > 0
        /\ budget' = budget - 1
        /\ Failed("probe", x, uf[x].parent)
        /\ UfRaise(x)
  /\ UNCHANGED <<remote, nextId>>
  /\ UfFrame

\* a variant of line 172 that retries whatever the status
is_transient_any(status) == TRUE

\* line 172
is_transient(status) == status \in Transient

\* upload_file, lines 168-189: file.execute().  The call answers, or fails
\* with a status; a failed call may have stored the file all the same.
UfCreate(x) ==
  /\ Active(x)
  /\ uf[x].st = "create"
  /\ \/ /\ Called("create_file", x, uf[x].parent)
        /\ remote' = remote \cup {NewObject(basename(x), uf[x].parent, "file")}
        /\ nextId' = nextId + 1
        /\ UfReturn(x, IdOf(nextId))
        /\ UNCHANGED budget
     \/ /\ budget > 0
        /\ budget' = budget - 1
        /\ \/ UNCHANGED <<remote, nextId>>
           \/ /\ remote' = remote \cup {NewObject(basename(x), uf[x].parent, "file")}
              /\ nextId' = nextId + 1
        /\ \E status \in Statuses :
             /\ Refused("create_file", x, uf[x].parent, status)
             /\ IF is_transient(status)
                THEN /\ uf' = [uf EXCEPT ![x].st = "reprobe", ![x].rc = @ + 1]
                     /\ UNCHANGED <<ni, results, failed, returned>>
                ELSE UfRaise(x)
  /\ UfFrame

\* a variant of the loop condition that allows one attempt more
may_retry_once_more(retry_count) == retry_count <= max_retries

\* line 168: retry_count < max_retries
may_retry(retry_count) == retry_count < max_retries

\* a variant of lines 179-183 that does not look
reprobe_blind(name, parent) == {}

\* check_file_exists of line 180
reprobe(name, parent) == list_children(name, parent)

\* upload_file, lines 179-192: the check after a transient failure, then the
\* next attempt, or the exception of line 192 once retry_count is max_retries
UfReprobe(x) ==
  /\ Active(x)
  /\ uf[x].st = "reprobe"
  /\ \/ /\ Called("probe", x, uf[x].parent)
        /\ \E o \in reprobe(basename(x), uf[x].parent) : UfReturn(x, o.id)
        /\ UNCHANGED budget
     \/ /\ Called("probe", x, uf[x].parent)
        /\ reprobe(basename(x), uf[x].parent) = {}
        /\ IF may_retry(uf[x].rc)
           THEN /\ uf' = [uf EXCEPT ![x].st = "create"]
                /\ UNCHANGED <<ni, results, failed, returned>>
           ELSE UfRaise(x)
        /\ UNCHANGED budget
     \/ /\ budget > 0
        /\ budget' = budget - 1
        /\ Failed("probe", x, uf[x].parent)
        /\ UfRaise(x)
  /\ UNCHANGED <<remote, nextId>>
  /\ UfFrame


\* parallel_upload_files, lines 283-295: every submitted task has finished;
\* the results are returned, or the pool's exception reaches line 245
PoolDone ==
  /\ pc = "pool"
  /\ \A x \in DOMAIN uf : uf[x].st = "done"
  /\ ni' = 1
  /\ IF pool.fault
     THEN /\ pc' = "seq"
          /\ fellback' = TRUE
     ELSE /\ pc' = "retry"
          /\ UNCHANGED fellback
  /\ UNCHANGED <<persist, env, runv, timeout_occurred, folder_cache, folder_id,
                 folder_ids, parent_id, gi, created_folders, foc, xfer, lastCall, touched,
                 selected, failed, uf_calls, returned, ledger0, last_record>>

StartUpload(x) ==
  /\ uf' = (x :> [st |-> "probe", rc |-> 0, parent |-> worker_parent(folder_ids, x)]) @@ uf
  /\ uf_calls' = [uf_calls EXCEPT ![x] = @ + 1]

\* a variant of line 224 that sends every file of the batch again
needs_retry_always(result) == TRUE

\* lines 224-227: the else branch of "if result['success']"
needs_retry(result) == ~result.success

\* lines 223-244: the results of the batch; a failed one is tried once more
RetryStep ==
  /\ pc = "retry"
  /\ \A x \in DOMAIN uf : uf[x].st = "done"
  /\ IF ni > Len(results)
     THEN /\ bi' = bi + batch_size
          /\ pc' = "files"
          /\ UNCHANGED <<ni, uf, uf_calls>>
     ELSE IF ~needs_retry(results[ni]) \/ worker_parent(folder_ids, results[ni].path) = None
          THEN /\ ni' = ni + 1
               /\ UNCHANGED <<pc, bi, uf, uf_calls>>
          ELSE /\ StartUpload(results[ni].path)
               /\ UNCHANGED <<pc, bi, ni>>
  /\ UNCHANGED <<persist, env, runv, timeout_occurred, folder_cache, folder_id,
                 folder_ids, parent_id, gi, created_folders, foc, pool, results, lastCall,
                 touched, selected, failed, returned, fellback, ledger0, last_record>>

\* lines 245-265: the sequential upload of the batch after the pool raised
SeqStep ==
  /\ pc = "seq"
  /\ \A x \in DOMAIN uf : uf[x].st = "done"
  /\ IF ni > Len(batch)
     THEN /\ bi' = bi + batch_size
          /\ pc' = "files"
          /\ UNCHANGED <<ni, uf, uf_calls, failed>>
     ELSE IF worker_parent(folder_ids, batch[ni]) = None
          THEN /\ ni' = ni + 1
               /\ failed' = failed \cup {batch[ni]}
               /\ UNCHANGED <<pc, bi, uf, uf_calls>>
          ELSE /\ StartUpload(batch[ni])
               /\ UNCHANGED <<pc, bi, ni, failed>>
  /\ UNCHANGED <<persist, env, runv, timeout_occurred, folder_cache, folder_id,
                 folder_ids, parent_id, gi, created_folders, foc, pool, results, lastCall,
                 touched, selected, returned, fellback, ledger0, last_record>>

(***************************************************************************)
(* upload_all_folders, lines 118-145: the ledger row and the move.         *)
(***************************************************************************)
\* the ledger file after record_folder_upload wrote rows to it
Written(rows) == [state |-> "table", rows |-> rows]

RecordStep ==
  /\ pc = "record"
  /\ IF timeout_occurred
     THEN /\ pc' = "loop"
          /\ fi' = fi + 1
          /\ UNCHANGED <<ledger, budget, last_record>>
     ELSE /\ pc' = "move"
          /\ fi' = fi
          /\ LET r == record_folder_upload(ledger, cur, folder_id)
                 rec == [called |-> TRUE, ok |-> r.write,
                         corrupt |-> ledger.state = "corrupt", folder |-> cur,
                         id |-> folder_id, hash |-> generate_folder_hash(cur).value,
                         before |-> ledger.rows]
             IN \/ /\ ~r.write
                   /\ last_record' = rec
                   /\ UNCHANGED <<ledger, budget>>
                \/ /\ r.write
                   /\ ledger' = Written(r.rows)
                   /\ last_record' = rec
                   /\ UNCHANGED budget
                \/ /\ r.write
                   /\ budget > 0
                   /\ budget' = budget - 1
                   /\ ledger' \in broken_write(ledger, r.rows)
                   /\ last_record' = [rec EXCEPT !.ok = FALSE]
  /\ UNCHANGED <<remote, nextId, toUpload, uploaded, mtime, now, runs_left, exit_code,
                 force, workers, folders, timeout_occurred, folder_cache, hier, xfer,
                 lastCall, touched, selected, failed, uf_calls, returned, fellback, ledger0>>

\* lines 130-134: the name in data/uploaded, with a timestamp if it is taken
target_name(f) == IF f \in uploaded THEN f \o "_" \o ToString(now) ELSE f

\* shutil.move(src, dst) of line 138 in the directory listing dirs: dst is
\* created, or, when dst is an existing directory, src is moved inside it
shutil_move(dirs, dst, f) ==
  IF dst \in dirs THEN dirs \cup {dst \o "/" \o f} ELSE dirs \cup {dst}

\* lines 136-142: shutil.move, which may fail
Move ==
  /\ pc = "move"
  /\ pc' = "loop"
  /\ fi' = fi + 1
  /\ \/ /\ toUpload' = toUpload \ {cur}
        /\ uploaded' = shutil_move(uploaded, target_name(cur), cur)
        /\ UNCHANGED budget
     \/ /\ budget > 0
        /\ budget' = budget - 1
        /\ UNCHANGED <<toUpload, uploaded>>
  /\ UNCHANGED <<remote, nextId, ledger, mtime, now, runs_left, exit_code, force, workers,
                 folders, timeout_occurred, folder_cache, hier, xfer, hist>>

(***************************************************************************)
(* The specification.                                                      *)
(***************************************************************************)
\* no invocation has started yet
NoProcess ==
  /\ mtime = [f \in AllFolders |-> 1]
  /\ now = 0
  /\ exit_code = 0
  /\ pc = "idle"
  /\ force = FALSE
  /\ workers = 1
  /\ timeout_occurred = FALSE
  /\ folders = << >>
  /\ fi = 1
  /\ folder_cache = EmptyMap
  /\ folder_id = None
  /\ folder_ids = EmptyMap
  /\ parent_id = None
  /\ gi = 0
  /\ ni = 0
  /\ created_folders = EmptyMap
  /\ foc = NoFoc
  /\ bi = 0
  /\ pool = NoPool
  /\ uf = EmptyMap
  /\ results = << >>
  /\ lastCall = NoCall
  /\ touched = {}
  /\ selected = {}
  /\ failed = {}
  /\ uf_calls = ZeroCalls
  /\ returned = NoReturns
  /\ fellback = FALSE
  /\ ledger0 = MissingLedger
  /\ last_record = NoRecord

\* nothing has run yet: data/uploaded is empty and no process state exists
AtRest ==
  /\ uploaded = {}
  /\ NoProcess

\* an empty Drive, no ledger or an unreadable one, one pending folder
Start ==
  /\ remote = {}
  /\ nextId = 1
  /\ ledger \in {MissingLedger, CorruptLedger}
  /\ toUpload \in {{"Linked"}, {"Pair"}, {"Project"}, {"Wide"}}
  /\ AtRest

Files == UNION {SeqToSet(FileItems[f]) : f \in AllFolders}

Next ==
  \/ \E fc \in BOOLEAN, w \in 0..MaxWorkers : RunStart(fc, w)
  \/ Authenticate
  \/ Loop
  \/ timeout_handler
  \/ Crash
  \/ KeyboardInterrupt
  \/ Drained
  \/ \E f \in AllFolders : Touch(f)
  \/ FocCall
  \/ FocList
  \/ FocCreate
  \/ Abort
  \/ GroupStep
  \/ BatchReturn
  \/ BigCreate
  \/ FallbackDone
  \/ FilesStep
  \/ Dispatch
  \/ \E x \in Files : WorkerStart(x)
  \/ \E x \in Files : UfProbe(x)
  \/ \E x \in Files : UfCreate(x)
  \/ \E x \in Files : UfReprobe(x)
  \/ PoolDone
  \/ RetryStep
  \/ SeqStep
  \/ RecordStep
  \/ Move

\* One invocation of upload_all_folders, with up to MaxFaults faults.
Init ==
  /\ Start
  /\ runs_left = 1
  /\ budget = MaxFaults

Spec == Init /\ [][Next]_vars

\* Up to MaxRuns invocations, one after the other, with up to MaxRerunFaults faults.
InitRerun ==
  /\ Start
  /\ runs_left = MaxRuns
  /\ budget = MaxRerunFaults

SpecRerun == InitRerun /\ [][Next]_vars

\* One invocation over several pending folders, with up to MaxRerunFaults faults.
InitMulti ==
  /\ remote = {}
  /\ nextId = 1
  /\ ledger \in {MissingLedger, CorruptLedger}
  /\ toUpload = {"Project", "Wide"}
  /\ AtRest
  /\ runs_left = 1
  /\ budget = MaxRerunFaults

SpecMulti == InitMulti /\ [][Next]_vars

\* One invocation on a pending folder whose name is taken in data/uploaded by a
\* folder moved there earlier; the name with the timestamp of this invocation
\* may be taken as well (time.strftime gives local time to the second, which
\* repeats when the clock is set back).
InitCollide ==
  /\ remote = {}
  /\ nextId = 1
  /\ ledger \in {MissingLedger, CorruptLedger}
  /\ \E f \in AllFolders :
       /\ toUpload = {f}
       /\ uploaded \in {{f}, {f, f \o "_" \o ToString(1)}}
  /\ NoProcess
  /\ runs_left = 1
  /\ budget = MaxRerunFaults

SpecCollide == InitCollide /\ [][Next]_vars

\* the folder names and parent ids a program hands to find_or_create_folder:
\* Drive ids are strings over letters, digits, '-' and '_', and so may names be
CallNames == {"a", "a_b"}

CallParents == {None, "c", "b_c"}

\* a process that has imported the client and calls find_or_create_folder up
\* to MaxCacheCalls times; Drive holds the two parent folders
InitCache ==
  /\ remote = {[id |-> "c", name |-> "C", parent |-> DriveRoot, kind |-> "folder"],
               [id |-> "b_c", name |-> "B", parent |-> DriveRoot, kind |-> "folder"]}
  /\ nextId = 1
  /\ ledger = MissingLedger
  /\ toUpload = {}
  /\ uploaded = {}
  /\ mtime = [f \in AllFolders |-> 1]
  /\ now = 1
  /\ exit_code = 0
  /\ runs_left = 0
  /\ budget = MaxRerunFaults
  /\ pc = "direct"
  /\ force = FALSE
  /\ workers = 1
  /\ timeout_occurred = FALSE
  /\ folders = <<None>>
  /\ fi = 1
  /\ folder_cache = EmptyMap
  /\ folder_id = None
  /\ folder_ids = EmptyMap
  /\ parent_id = None
  /\ gi = 0
  /\ ni = 1
  /\ created_folders = EmptyMap
  /\ foc = NoFoc
  /\ bi = 0
  /\ pool = NoPool
  /\ uf = EmptyMap
  /\ results = << >>
  /\ lastCall = NoCall
  /\ touched = {}
  /\ selected = {}
  /\ failed = {}
  /\ uf_calls = ZeroCalls
  /\ returned = NoReturns
  /\ fellback = FALSE
  /\ ledger0 = MissingLedger
  /\ last_record = NoRecord

NextCache ==
  \/ \E name \in CallNames, parent \in CallParents : DirectCall(name, parent)
  \/ FocList
  \/ FocCreate

SpecCache == InitCache /\ [][NextCache]_vars

\* upload_all --workers 0 on to_upload/Project, an empty Drive and no ledger,
\* at the moment the hierarchy is built and ThreadPoolExecutor(max_workers=0)
\* has raised: lines 245-265 are about to upload the batch file by file.
ClientStart ==
  /\ remote = {[id |-> IdOf(1), name |-> "Project", parent |-> DriveRoot, kind |-> "folder"],
               [id |-> IdOf(2), name |-> "sub", parent |-> IdOf(1), kind |-> "folder"],
               [id |-> IdOf(3), name |-> "empty", parent |-> IdOf(2), kind |-> "folder"]}
  /\ nextId = 4
  /\ ledger = MissingLedger
  /\ toUpload = {"Project"}
  /\ uploaded = {}
  /\ mtime = [f \in AllFolders |-> 1]
  /\ now = 1
  /\ exit_code = 0
  /\ runs_left = 0
  /\ pc = "seq"
  /\ force = FALSE
  /\ workers = 0
  /\ timeout_occurred = FALSE
  /\ folders = <<"Project">>
  /\ fi = 1
  /\ folder_cache = [k \in {cache_key("Project", None), cache_key("sub", IdOf(1)),
                             cache_key("empty", IdOf(2))} |->
                       CASE k = cache_key("Project", None) -> IdOf(1)
                         [] k = cache_key("sub", IdOf(1)) -> IdOf(2)
                         [] OTHER -> IdOf(3)]
  /\ folder_id = IdOf(1)
  /\ folder_ids = (Dot :> IdOf(1)) @@ (<<"sub">> :> IdOf(2)) @@ (<<"sub", "empty">> :> IdOf(3))
  /\ parent_id = IdOf(2)
  /\ gi = 3
  /\ ni = 1
  /\ created_folders = [n \in {"empty"} |-> IdOf(3)]
  /\ foc = NoFoc
  /\ bi = 0
  /\ pool = NoPool
  /\ uf = EmptyMap
  /\ results = << >>
  /\ lastCall = [op |-> "create_folder", folder |-> "Project", node |-> <<"sub", "empty">>,
                 parent |-> IdOf(2), known |-> TRUE, expected |-> IdOf(2),
                 root |-> IdOf(1), status |-> 0]
  /\ touched = {"Project"}
  /\ selected = {"Project"}
  /\ failed = {}
  /\ uf_calls = [x \in SeqToSet(FileItems["Project"]) |-> 0]
  /\ returned = [x \in SeqToSet(FileItems["Project"]) |-> << >>]
  /\ fellback = TRUE
  /\ ledger0 = MissingLedger
  /\ last_record = NoRecord

\* The Drive client alone: the sequential uploads of one batch, with enough
\* failing calls for upload_file to use up its retries.
InitClient ==
  /\ ClientStart
  /\ budget = MaxClientFaults

NextClient ==
  \/ SeqStep
  \/ \E x \in Files : UfProbe(x) \/ UfCreate(x) \/ UfReprobe(x)

\* the interpreter thread keeps running: a step that can be taken is taken
SpecClient == InitClient /\ [][NextClient]_vars /\ WF_vars(NextClient)


(***************************************************************************)
(* Properties.  Spec is one invocation of upload_all_folders, SpecRerun a   *)
(* sequence of MaxRuns invocations over the same directories, ledger and   *)
(* Drive.                                                                  *)
(***************************************************************************)
\* the ledger l holds the fingerprint folder f has now
LedgerHas(l, f) == l.state = "table" /\ hash_input(f, mtime[f]) \in Hashes(l.rows)

\* C1 (idempotent re-run): in an invocation without --force, a folder whose
\* fingerprint (same path, same mtime) was in the ledger when the invocation
\* started is not selected and receives no remote call; when nothing is
\* selected the invocation ends before it authenticates or calls Drive.
C1_IdempotentRerun ==
  \A f \in AllFolders :
    (now >= 1 /\ ~force /\ LedgerHas(ledger0, f)) =>
       /\ f \notin selected
       /\ f \notin touched
       /\ selected = {} => (pc = "idle" /\ lastCall = NoCall /\ touched = {})

\* a second invocation finds the folder still pending and already recorded
C1_Witness ==
  /\ now = 2
  /\ ~force
  /\ remote # {}
  /\ \E f \in toUpload : LedgerHas(ledger0, f) /\ f \notin selected

\* C2 (ledger uniqueness): a parsable ledger never holds two rows with the same
\* folder_hash, and recording a fingerprint the ledger already holds keeps the
\* number of rows and overwrites drive_folder_id and upload_time of its row in
\* place, leaving every other row as it was.
C2_LedgerUnique ==
  /\ ledger.state = "table" =>
       \A i, j \in 1..Len(ledger.rows) :
          ledger.rows[i].folder_hash = ledger.rows[j].folder_hash => i = j
  /\ (last_record.ok /\ last_record.hash \in Hashes(last_record.before)) =>
       /\ ledger.state = "table"
       /\ Len(ledger.rows) = Len(last_record.before)
       /\ \A i \in 1..Len(last_record.before) :
            ledger.rows[i] =
              IF last_record.before[i].folder_hash = last_record.hash
              THEN [last_record.before[i] EXCEPT !.drive_folder_id = last_record.id,
                                                 !.upload_time = now]
              ELSE last_record.before[i]

\* a forced second invocation recorded a fingerprint the ledger already held
C2_Witness ==
  /\ last_record.ok
  /\ last_record.hash \in Hashes(last_record.before)
  /\ ledger.rows # last_record.before

FolderCalls == {"list_folder", "create_folder"}

FileCalls == {"probe", "create_file"}

NoTwin ==
  \A o1, o2 \in remote :
    (o1.kind = "file" /\ o1.name = o2.name /\ o1.parent = o2.parent) => o1 = o2

\* upload_file on x is at the check of line 180 and the object is in the store
FoundOnRetry(x) ==
  /\ x \in DOMAIN uf
  /\ uf[x].st = "reprobe"
  /\ list_children(basename(x), uf[x].parent) # {}

\* the step upload_file takes from there: it creates nothing and ends, and when
\* the check answered it ends by returning (x is a success, not a failure)
ReturnsFound(x) ==
  (x \in DOMAIN uf' /\ uf'[x] # uf[x]) =>
     /\ remote' = remote
     /\ uf'[x].st = "done"
     /\ budget' = budget =>
          /\ x \notin failed'
          /\ pc = "pool" => results' = Append(results, [path |-> x, success |-> TRUE])

\* C4 (duplicate safety under transient failure): upload_file never leaves a
\* second object of the same name under the same parent, and when its create
\* reported a transient status although the object was stored, the check before
\* the next attempt finds the object and upload_file returns without creating.
C4_DuplicateSafety ==
  /\ []NoTwin
  /\ [][\A x \in Files : FoundOnRetry(x) => ReturnsFound(x)]_vars

\* a create answered with a transient status and the file is in the store
C4_Witness ==
  \E x \in Files :
    /\ FoundOnRetry(x)
    /\ uf[x].rc = 1
    /\ lastCall.op = "create_file"

\* the file objects of the store that mirror local file x of the current folder
Copies(x) ==
  {o \in remote : /\ o.kind = "file"
                  /\ o.name = basename(x)
                  /\ o.parent = Get(folder_ids, parent_path(x))}

\* the batch that fell back to sequential uploads has been worked through
FallbackOver == fellback /\ pc \in {"files", "record", "move"}

\* C5 (batch fallback), as stated: after the sequential fallback every file of
\* the batch is in the remote store exactly once.
C5_BatchFallback ==
  FallbackOver => \A x \in SeqToSet(FileItems[cur]) : Cardinality(Copies(x)) = 1

\* C5, amended: after the sequential fallback no file of the batch is in the
\* store twice (what a worker created before the fault is found, not created
\* again); every file is in the store exactly once except those the fallback
\* reported as failed (no parent id, or upload_file raised), which it skips.
C5_BatchFallbackAmended ==
  FallbackOver =>
    \A x \in SeqToSet(FileItems[cur]) :
       /\ Cardinality(Copies(x)) <= 1
       /\ x \notin failed => Cardinality(Copies(x)) = 1
       /\ uf_calls[x] <= 2

\* the pool raised after a worker had uploaded a file; the fallback went
\* through the batch and every file is there once
C5_Witness ==
  /\ FallbackOver
  /\ pool.fault
  /\ failed = {}
  /\ \E x \in SeqToSet(FileItems[cur]) : uf_calls[x] = 2
  /\ \A x \in SeqToSet(FileItems[cur]) : Cardinality(Copies(x)) = 1

\* C6 (corrupt ledger, look-up): on a ledger that cannot be parsed
\* is_folder_uploaded returns False and does not raise, so an invocation that
\* starts on such a ledger selects every pending folder and goes on.
C6_CorruptLookup ==
  /\ \A f \in AllFolders :
       is_folder_uploaded(CorruptLedger, f) = [raised |-> FALSE, value |-> FALSE]
  /\ (now >= 1 /\ ledger0.state = "corrupt") => toUpload \subseteq selected

\* an invocation without --force started on a corrupt ledger and is uploading
C6_Witness ==
  /\ ledger0.state = "corrupt"
  /\ ~force
  /\ pc = "root"
  /\ selected = toUpload
  /\ selected # {}

\* C7 (corrupt ledger, record): with a ledger that cannot be parsed and no
\* failing call, record_folder_upload succeeds and leaves a parsable ledger
\* that holds the row of the recorded folder.
C7_CorruptRecord ==
  (last_record.called /\ last_record.corrupt /\ budget = MaxFaults) =>
     /\ last_record.ok
     /\ ledger.state = "table"
     /\ last_record.hash \in Hashes(ledger.rows)

\* one invocation uploaded Project, completely, and recorded it
ProjectDone ==
  /\ pc = "idle"
  /\ now = 1
  /\ exit_code = 0
  /\ selected = {"Project"}
  /\ failed = {}
  /\ DOMAIN folder_ids = {Dot} \cup SeqToSet(unsorted_folder_items("Project"))
  /\ last_record.ok

\* the remote store is the mirror of Project and nothing else, under ids p, s, e
ProjectMirror(p, s, e) ==
  \E a, b \in {IdOf(n) : n \in 1..(nextId - 1)} :
     remote = {[id |-> p, name |-> "Project", parent |-> DriveRoot, kind |-> "folder"],
               [id |-> s, name |-> "sub", parent |-> p, kind |-> "folder"],
               [id |-> e, name |-> "empty", parent |-> s, kind |-> "folder"],
               [id |-> a, name |-> "a.txt", parent |-> p, kind |-> "file"],
               [id |-> b, name |-> "b.txt", parent |-> s, kind |-> "file"]}

\* C8 (end to end): one successful invocation on Project (a.txt, sub/b.txt,
\* sub/empty/) against an empty store and no ledger leaves exactly the folder
\* Project, sub under it, empty under sub, a.txt under Project and b.txt under
\* sub, five objects in all, and a ledger of exactly one row: the fingerprint
\* of Project with the id of the remote folder Project.
C8_EndToEnd ==
  ProjectDone =>
    /\ Cardinality(remote) = 5
    /\ \E s, e \in {IdOf(n) : n \in 1..(nextId - 1)} :
         ProjectMirror(folder_id, s, e)
    /\ ledger.state = "table"
    /\ Len(ledger.rows) = Len(ledger0.rows) + 1
    /\ ledger.rows[1].folder_hash = last_record.hash
    /\ ledger.rows[1].folder_name = "Project"
    /\ ledger.rows[1].drive_folder_id = folder_id

\* the successful invocation is over and the folder has been moved
C8_Witness ==
  /\ ProjectDone
  /\ budget = MaxFaults
  /\ uploaded = {"Project"}
  /\ Cardinality(remote) = 5

\* the names from the Drive root down to object o
RECURSIVE RemotePath(_)
RemotePath(o) ==
  IF o.parent = DriveRoot THEN <<o.name>>
  ELSE LET up == {q \in remote : q.id = o.parent}
       IN IF up = {} THEN <<o.parent, o.name>>
          ELSE RemotePath(CHOOSE q \in up : TRUE) \o <<o.name>>

\* C9 (recoverability): whatever invocations came before and wherever they
\* stopped, the remote store holds at most one file object for a local file
\* (its name under the mirror of its directory).
C9_Recoverability ==
  \A f \in AllFolders : \A x \in SeqToSet(FileItems[f]) :
     Cardinality({o \in remote : o.kind = "file" /\ RemotePath(o) = <<f>> \o x}) <= 1

\* C10 (folder recovery): a sub-directory whose remote folder exists under its
\* remote parent is given that folder's id and no second folder of that name
\* is created under that parent, whatever the number of sibling directories.
C10_FolderRecovery ==
  \A o1, o2 \in remote :
    (/\ o1.kind = "folder"
     /\ o2.kind = "folder"
     /\ o1.name = o2.name
     /\ o1.parent = o2.parent) => o1 = o2

\* the positions of upload_folder in its hierarchy stage
HierarchyStage == {"root", "group", "small", "big", "bigfoc", "fallback"}

\* the directories of the scan of folder f, its own root included
ScanDirs(f) == {Dot} \cup SeqToSet(unsorted_folder_items(f))

\* upload_folder is running on the folder the last remote call was made for
InLastCallFolder ==
  /\ pc \notin {"idle", "auth", "loop"}
  /\ lastCall.folder = cur

\* C11 (folders before files), as stated: when upload_folder issues a file
\* call, every directory of the scan has its id in folder_ids.
C11_FoldersBeforeFiles ==
  (InLastCallFolder /\ lastCall.op \in FileCalls) =>
     DOMAIN folder_ids = ScanDirs(cur)

\* C11, amended: when upload_folder issues a file call the loop over the
\* groups of directories is over (every directory was created, found, or its
\* creation failed and it has no id), the directories with an id are
\* directories of the scan, and while upload_folder is in its hierarchy stage
\* no upload_file call has been made for the folder.
C11_FoldersBeforeFilesAmended ==
  /\ (InLastCallFolder /\ lastCall.op \in FileCalls) =>
       /\ gi > Len(FolderGroups[cur])
       /\ DOMAIN folder_ids \subseteq ScanDirs(cur)
       /\ pc \notin HierarchyStage
  /\ pc \in HierarchyStage =>
       /\ uf = EmptyMap
       /\ \A x \in DOMAIN uf_calls : uf_calls[x] = 0

\* a file of Project is sent while every directory of Project has its id
C11_Witness ==
  /\ InLastCallFolder
  /\ lastCall.op = "create_file"
  /\ lastCall.folder = "Project"
  /\ DOMAIN folder_ids = ScanDirs("Project")
  /\ gi > Len(FolderGroups["Project"])

\* C12 (timeout cancellation): once timeout_occurred is set, no file batch of
\* the folder being uploaded is dispatched any more (no pool is built, no
\* sequential fallback is entered) and no further folder is started.
C12_TimeoutCancellation ==
  [][timeout_occurred =>
       /\ ~(pc = "files" /\ pc' \in {"pool", "seq"})
       /\ ~(pc = "loop" /\ pc' = "root")]_vars

\* the invocation has ended through line 98 or 147 with the timeout flag set
TimedOutExit ==
  /\ pc = "idle"
  /\ now >= 1
  /\ exit_code = 0
  /\ timeout_occurred
  /\ folders # << >>

\* the folders whose upload_folder returned while the flag was unset: all but
\* the last one started, and the last one if line 120 was reached for it
CompletedBeforeTimeout ==
  {folders[j] : j \in 1..(fi - 2)} \cup
  {folders[j] : j \in {k \in {fi - 1} : /\ k >= 1
                                        /\ last_record.called
                                        /\ last_record.folder = folders[k]}}

\* the folders the for loop never reached
NotStarted == {folders[j] : j \in fi..Len(folders)}

\* the ledger holds a row written for folder f by this invocation
RowOfThisRun(f) ==
  /\ ledger.state = "table"
  /\ \E i \in 1..Len(ledger.rows) :
       ledger.rows[i].folder_name = f /\ ledger.rows[i].upload_time = now

\* C13 (resumable state after timeout): when an invocation over several
\* folders in which no call failed ends with the timeout flag set, every folder
\* whose upload completed before the timeout has a ledger row, and every
\* folder not started has received no remote call, has no row of this
\* invocation and is still in to_upload.
C13_ResumableAfterTimeout ==
  (TimedOutExit /\ budget = MaxRerunFaults) =>
     /\ \A f \in CompletedBeforeTimeout : RowOfThisRun(f)
     /\ \A f \in NotStarted :
          /\ f \notin touched
          /\ ~RowOfThisRun(f)
          /\ f \in toUpload

\* C14 (recorded and moved only after a complete upload): when line 120 has
\* recorded the folder and the move is next, every directory of the folder has
\* its id and no file of it ended as a failure.
C14_RecordedOnlyWhenComplete ==
  pc = "move" =>
     /\ last_record.called
     /\ last_record.folder = cur
     /\ failed = {}
     /\ DOMAIN folder_ids = ScanDirs(cur)

\* the current folder is past its hierarchy: files are being or have been sent
InTransfer == pc \in {"pool", "retry", "seq", "files", "record", "move"}

\* upload_file on x is at the check of line 122 and the object is in the store
FoundAtFirst(x) ==
  /\ x \in DOMAIN uf
  /\ uf[x].st = "probe"
  /\ list_children(basename(x), uf[x].parent) # {}

\* the step upload_file takes from there: nothing is created, and unless the
\* check itself failed the call returns the id of an object the check listed
ReturnsExisting(x) ==
  (x \in DOMAIN uf' /\ uf'[x] # uf[x]) =>
     /\ remote' = remote
     /\ uf'[x].st = "done"
     /\ budget' = budget =>
          \E o \in list_children(basename(x), uf[x].parent) :
             returned'[x] = Append(returned[x], o.id)

\* upload_file has returned twice for x: the same id, of the one object there is
SameIdTwice(x) ==
  Len(returned[x]) = 2 =>
     /\ returned[x][1] = returned[x][2]
     /\ \E o \in remote :
          /\ o.id = returned[x][1]
          /\ list_children(basename(x), worker_parent(folder_ids, x)) = {o}

\* C15 (upload_file is idempotent): when the check of line 122 finds the name
\* under the parent, upload_file returns that object's id and creates nothing;
\* when upload_file has returned twice for the same file and parent, both calls
\* returned the same id and the parent holds exactly one object of that name.
C15_UploadFileIdempotent ==
  /\ [](InTransfer => \A x \in DOMAIN returned : SameIdTwice(x))
  /\ [][\A x \in Files : FoundAtFirst(x) => ReturnsExisting(x)]_vars

\* upload_file returned for a file a second time
C15_Witness ==
  /\ InTransfer
  /\ \E x \in DOMAIN returned : Len(returned[x]) = 2 /\ uf_calls[x] = 2

\* upload_file is at work on x
InUploadFile(x) == x \in DOMAIN uf /\ uf[x].st \in Running

\* retry_count stays within the ceiling, and file.execute() is only ever about
\* to run as attempt retry_count + 1 <= max_retries
WithinCeiling ==
  \A x \in DOMAIN uf :
     /\ uf[x].rc <= max_retries
     /\ uf[x].st = "create" => uf[x].rc + 1 <= max_retries

\* the check of line 180 after the last allowed attempt, and nothing found
Exhausted(x) ==
  /\ x \in DOMAIN uf
  /\ uf[x].st = "reprobe"
  /\ uf[x].rc = max_retries
  /\ list_children(basename(x), uf[x].parent) = {}

\* upload_file raises (line 192, or the check itself failed): this file alone
\* is a failure and the caller goes on with the next one
FailsThisFileOnly(x) ==
  (x \in DOMAIN uf' /\ uf'[x] # uf[x]) =>
     /\ uf'[x].st = "done"
     /\ remote' = remote
     /\ returned' = returned
     /\ failed' = failed \cup {x}
     /\ pc' = pc
     /\ ni' = ni + 1

\* C16 (retry ceiling): upload_file executes its create request at most
\* max_retries = 5 times; after the fifth transient failure with nothing found
\* by the check it raises, which fails that file only; and whatever the remote
\* answers, every call of upload_file ends.
C16_RetryCeiling ==
  /\ []WithinCeiling
  /\ [][\A x \in Files : Exhausted(x) => FailsThisFileOnly(x)]_vars
  /\ \A x \in Files : InUploadFile(x) ~> ~InUploadFile(x)

\* five creates of one call were refused with a transient status
C16_Witness ==
  \E x \in Files : Exhausted(x) /\ lastCall.op = "create_file" /\ lastCall.status \in Transient

\* the create of upload_file on x has just been refused with a status that
\* line 172 does not list
RefusedForGood(x) ==
  /\ x \in DOMAIN uf
  /\ uf[x].st = "create"
  /\ x \in DOMAIN uf'
  /\ uf'[x] # uf[x]
  /\ lastCall'.op = "create_file"
  /\ lastCall'.status \notin Transient \cup {0}

\* C17 (non-transient errors propagate at once): when the create request of
\* upload_file fails with a status outside {429, 500, 502, 503, 504}, the call
\* ends there with an exception: no further attempt, no check, nothing returned.
C17_NonTransientPropagates ==
  [][\A x \in Files :
       RefusedForGood(x) =>
          /\ uf'[x].st = "done"
          /\ uf'[x].rc = 0
          /\ returned' = returned
          /\ pc \in {"pool", "seq"} => x \in failed'
          /\ pc = "pool" => results' = Append(results, [path |-> x, success |-> FALSE])]_vars

\* a create was refused with 403 and upload_file is over for that file
C17_Witness ==
  /\ InTransfer
  /\ lastCall.op = "create_file"
  /\ lastCall.status = 403
  /\ lastCall.node \in DOMAIN uf
  /\ uf[lastCall.node].st = "done"
  /\ lastCall.node \in failed

\* the folders of the store with that name, under that parent when one is given
FoldersNamed(name, parent) ==
  {o \in remote : /\ o.kind = "folder"
                  /\ o.name = name
                  /\ parent # None => o.parent = parent}

\* find_or_create_folder hands id back: lines 88-89 and 103-105 cache the very
\* id they return
FocReturns(id) ==
  /\ foc' = NoFoc
  /\ cache_key(foc.name, foc.parent) \in DOMAIN folder_cache'
  /\ folder_cache'[cache_key(foc.name, foc.parent)] = id

\* the process goes on (it is not killed in this step)
Alive == pc' # "idle"

\* the step of lines 83-90 when the query answers
LookupStep ==
  (foc.phase = "list" /\ foc' # foc /\ Alive /\ budget' = budget) =>
     /\ remote' = remote
     /\ IF FoldersNamed(foc.name, foc.parent) # {}
        THEN \E o \in FoldersNamed(foc.name, foc.parent) : FocReturns(o.id)
        ELSE foc' = [foc EXCEPT !.phase = "create"]

\* the step of lines 92-105: one create, whose answer is returned (or whose
\* exception ends the call)
CreateStep ==
  (foc.phase = "create" /\ foc' # foc /\ Alive) =>
     /\ foc' = NoFoc
     /\ budget' = budget =>
          \E o \in remote' \ remote :
             /\ remote' = remote \cup {o}
             /\ o = [id |-> o.id, name |-> foc.name, kind |-> "folder",
                     parent |-> IF foc.parent = None THEN DriveRoot ELSE foc.parent]
             /\ FocReturns(o.id)

NextName == IF pc = "root" THEN cur ELSE basename(item)

NextParent == IF pc = "root" THEN None ELSE parent_id

\* find_or_create_folder is about to be called with a pair it has answered
\* before in this process
CacheHit ==
  /\ pc \in FocSites
  /\ foc.phase = "off"
  /\ pc # "root" => ni <= Len(group.items)
  /\ cache_key(NextName, NextParent) \in DOMAIN folder_cache

\* the call is answered from the cache: the caller receives the cached id and
\* no request is sent
AnsweredFromCache ==
  LET id == folder_cache[cache_key(NextName, NextParent)]
  IN /\ remote' = remote
     /\ nextId' = nextId
     /\ lastCall' = lastCall
     /\ budget' = budget
     /\ foc' = NoFoc
     /\ CASE pc = "root" -> folder_id' = id
          [] pc = "fallback" -> folder_ids' = (item :> id) @@ folder_ids
          [] OTHER -> created_folders' = (NextName :> id) @@ created_folders

\* no entry of folder_cache is removed or changed while the process runs
CacheKept ==
  (pc # "idle" /\ Alive) =>
     \A k \in DOMAIN folder_cache :
        k \in DOMAIN folder_cache' /\ folder_cache'[k] = folder_cache[k]

\* C19 (folder-id cache): a call of find_or_create_folder with a name and
\* parent it has already returned an id for in this process returns that id
\* and sends no lookup and no create; and an entry of the cache is never removed
\* or changed during the run.
C19_FolderCache ==
  [][/\ CacheKept
     /\ (CacheHit /\ Alive /\ hier' # hier) => AnsweredFromCache]_vars

\* the second of two sibling directories failed, and the fallback of lines
\* 197-208 asked for the first again: its id came from the cache
C19_Witness ==
  /\ pc = "fallback"
  /\ ni = 2
  /\ Len(group.items) >= 2
  /\ lastCall.folder = cur
  /\ lastCall.node = group.items[2]
  /\ group.items[1] \in DOMAIN folder_ids
  /\ cache_key(basename(group.items[1]), parent_id) \in DOMAIN folder_cache
  /\ folder_ids[group.items[1]] = folder_cache[cache_key(basename(group.items[1]), parent_id)]

\* upload_all starts while uploaded_folders.csv does not exist: no lookup
\* fails and no pending folder is taken for uploaded
StartsWithoutLedger ==
  (pc = "idle" /\ runs_left' = runs_left - 1 /\ ledger.state = "missing") =>
     /\ \A f \in toUpload : is_folder_uploaded(ledger, f) = [raised |-> FALSE, value |-> FALSE]
     /\ selected' = toUpload
     /\ toUpload # {} => pc' = "auth" /\ exit_code' = 0

\* record_folder_upload runs while the file does not exist and the write
\* succeeds: the file is a table of one row, the folder's
CreatesLedger ==
  (pc = "record" /\ pc' = "move" /\ ledger.state = "missing" /\ budget' = budget) =>
     /\ last_record'.ok
     /\ ledger' = [state |-> "table",
                   rows |-> <<[folder_path |-> abspath(cur), folder_name |-> cur,
                               folder_hash |-> hash_input(cur, mtime[cur]),
                               drive_folder_id |-> folder_id, upload_time |-> now]>>]

\* C20 (missing ledger table): when the ledger file does not exist,
\* is_folder_uploaded returns False without an error, and record_folder_upload
\* creates the table with exactly the one new row.
C20_MissingLedger ==
  [][StartsWithoutLedger /\ CreatesLedger]_vars

\* the first folder ever uploaded has been recorded in a ledger that did not exist
C20_Witness ==
  /\ pc = "move"
  /\ ledger0.state = "missing"
  /\ last_record.called
  /\ last_record.ok
  /\ last_record.folder = cur
  /\ ledger.state = "table"
  /\ Len(ledger.rows) = 1
  /\ ledger.rows[1].folder_name = cur

\* C21 (atomic ledger persistence): whatever happens to the write of
\* record_folder_upload, the ledger file afterwards can still be parsed and
\* holds every row it held before the call (it is the old table or the new one).
C21_AtomicLedger ==
  (last_record.called /\ ~last_record.corrupt) =>
     /\ ledger.state # "corrupt"
     /\ \A i \in 1..Len(last_record.before) :
          last_record.before[i].folder_hash \in Hashes(ledger.rows)

\* the modification times a pending folder goes through
Mtimes == 1..(MaxTouch + 1)

\* generate_folder_hash tells two modification times of one path apart
HashTellsMtimes ==
  \A f \in AllFolders : \A m1, m2 \in Mtimes :
     hash_input(f, m1) = hash_input(f, m2) <=> m1 = m2

\* is_folder_uploaded(f) answers True (the folder is at its path)
KnownUploaded(f) == f \in toUpload /\ is_folder_uploaded(ledger, f).value

\* one step seen from folder f: a successful record of f makes the answer
\* True, the answer stays True while f keeps its path and mtime, and it is False
\* once the mtime of f has changed
RoundTripStep(f) ==
  /\ (pc = "record" /\ pc' = "move" /\ cur = f /\ last_record'.ok) => KnownUploaded(f)'
  /\ (KnownUploaded(f) /\ f \in toUpload' /\ mtime'[f] = mtime[f]) => KnownUploaded(f)'
  /\ (f \in toUpload' /\ mtime'[f] # mtime[f]) => ~KnownUploaded(f)'

\* C22 (fingerprint round trip): generate_folder_hash is a function of path and
\* mtime that tells the mtimes of a path apart; after a successful
\* record_folder_upload(p, id), is_folder_uploaded(p) is True for as long as p
\* keeps its path and mtime, and False once p's mtime has changed.
C22_FingerprintRoundTrip ==
  /\ []HashTellsMtimes
  /\ [][\A f \in AllFolders : RoundTripStep(f)]_vars

\* the rows of a ledger file, as far as it can be read
RowsOf(l) == IF l.state = "table" THEN l.rows ELSE << >>

\* record_folder_upload for the fingerprint h left the other rows alone
OtherRowsKept(before, after, h) ==
  \A i \in 1..Len(before) :
     before[i].folder_hash # h => (i <= Len(after) /\ after[i] = before[i])

\* C23 (ledger rows are never auto-deleted): whatever the program does, the
\* number of rows of the ledger never decreases, and a record_folder_upload
\* leaves every row of another fingerprint as it was.
C23_RowsNeverDeleted ==
  [][/\ Len(RowsOf(ledger')) >= Len(RowsOf(ledger))
     /\ (pc = "record" /\ pc' = "move") =>
          OtherRowsKept(RowsOf(ledger), RowsOf(ledger'), hash_input(cur, mtime[cur]))]_vars

\* the remote objects inside the Drive folder that mirrors local folder f
InsideRoot(f) ==
  {o \in remote : \E r \in remote : /\ r.kind = "folder"
                                      /\ r.name = f
                                      /\ r.parent = DriveRoot
                                      /\ o.parent = r.id}

\* find_or_create_folder of line 119 raised: upload_folder has done nothing else
RootFailed ==
  pc = "abort" =>
     /\ folder_id = None
     /\ folder_ids = EmptyMap
     /\ lastCall.folder = cur
     /\ lastCall.node = Dot
     /\ lastCall.op \in FolderCalls
     /\ \A x \in DOMAIN uf_calls : uf_calls[x] = 0
     /\ InsideRoot(cur) = {}
     /\ cur \in toUpload
     /\ ~RowOfThisRun(cur)

\* from there the run only ends, with exit code 1 and nothing else touched
AbortStep ==
  pc = "abort" =>
     /\ remote' = remote
     /\ ledger' = ledger
     /\ toUpload' = toUpload
     /\ uploaded' = uploaded
     /\ pc' # "abort" => (pc' = "idle" /\ exit_code' = 1)

\* C24 (root-folder failure is fatal): when find_or_create_folder raises for a
\* folder's own root, the run ends with a non-zero exit; nothing inside that
\* folder has been created or uploaded, no ledger row is written for it and it
\* stays in to_upload.
C24_RootFailureFatal ==
  /\ []RootFailed
  /\ [][AbortStep]_vars

\* the run has ended because the create of the root folder failed
C24_Witness ==
  /\ pc = "idle"
  /\ exit_code = 1
  /\ lastCall.op = "create_folder"
  /\ lastCall.node = Dot
  /\ folder_id = None
  /\ lastCall.folder \in toUpload
  /\ ledger = ledger0

\* upload_all_folders is at line 91: nothing has been sent, written or moved
\* by this invocation
BeforeAuthentication ==
  pc = "auth" =>
     /\ lastCall = NoCall
     /\ touched = {}
     /\ ~last_record.called
     /\ ledger = ledger0

\* authenticate() itself calls Drive for nothing and leaves ledger and folders
\* alone; when it fails the run is over, with exit code 1
AuthenticateStep ==
  pc = "auth" =>
     /\ remote' = remote
     /\ ledger' = ledger
     /\ toUpload' = toUpload
     /\ uploaded' = uploaded
     /\ lastCall' = NoCall
     /\ budget' < budget => (pc' = "idle" /\ exit_code' = 1)

\* C25 (authentication failure is fatal before any I/O): when authenticate()
\* fails, upload_all_folders ends with a non-zero exit and this invocation has
\* made no remote call, written no ledger row and moved no folder.
C25_AuthenticationFatal ==
  /\ []BeforeAuthentication
  /\ [][AuthenticateStep]_vars

\* authenticate() failed with folders selected for upload
C25_Witness ==
  /\ pc = "idle"
  /\ exit_code = 1
  /\ folders # << >>
  /\ lastCall = NoCall
  /\ touched = {}
  /\ budget < MaxFaults
  /\ ledger = ledger0
  /\ selected \subseteq toUpload

\* the names a folder moved inside the directory u of data/uploaded can have
Inside(u) == {u \o "/" \o f : f \in AllFolders}

\* shutil.move put the folder f at the fresh top-level name t of data/uploaded
MovedTo(t, f) ==
  /\ t \notin uploaded
  /\ uploaded' = uploaded \cup {t}
  /\ t = IF f \in uploaded THEN f \o "_" \o ToString(now) ELSE f

\* the step of lines 129-142
RelocationStep ==
  (pc = "move" /\ pc' = "loop") =>
     /\ uploaded \subseteq uploaded'
     /\ \A u \in uploaded : Inside(u) \cap uploaded' \subseteq uploaded
     /\ cur \notin toUpload' => MovedTo(target_name(cur), cur)
     /\ cur \in toUpload' => uploaded' = uploaded

\* C26 (relocation never overwrites): a finished folder whose name is taken in
\* the uploaded directory is moved to the name with a timestamp suffix; no
\* folder already in the uploaded directory is replaced or receives the moved
\* folder; and a folder whose move fails stays in to_upload.
C26_RelocationNeverOverwrites ==
  [][RelocationStep]_vars

\* values of --batch-size an operator may pass; upload_all_folders takes the
\* value as its parameter batch_size, prints it at line 111 and passes it to
\* nothing, so an invocation runs the same whichever of them was given
BatchSizes == {1, 2, batch_size}

\* C27 (the operator's batch size is honoured): whichever batch size b the
\* invocation was given, the transfer stage hands the files on in batches of at
\* most b files, and the pool has at most --workers threads.
C27_BatchSizeHonoured ==
  \A b \in BatchSizes :
     /\ pc \in {"pool", "retry", "seq"} => Len(batch) <= b
     /\ pc = "pool" => pool.threads <= workers

\* KeyboardInterrupt has been raised and the process has not ended yet
Interrupted == pc = "drain"

\* C28 (operator abort): once KeyboardInterrupt has been raised the run makes
\* no further remote call, writes no ledger row and moves no folder, and its
\* next step is the exit with a non-zero code.
C28_OperatorAbort ==
  [][Interrupted =>
       /\ Alive => lastCall' = lastCall
       /\ remote' = remote
       /\ ledger' = ledger
       /\ toUpload' = toUpload
       /\ uploaded' = uploaded
       /\ pc' # pc => (pc' = "idle" /\ exit_code' = 1)]_vars


\* the hierarchy stage of upload_folder is over: the loop of line 173 has been
\* through every group and no batch of files has been taken yet
HierarchyDone == pc = "files" /\ bi = 0

\* the remote store holds the folder id, named name, directly under parent
RemoteChild(id, name, parent) ==
  [id |-> id, name |-> name, parent |-> parent, kind |-> "folder"] \in remote

\* C29 (remote structure mirrors local structure): at the end of the hierarchy
\* stage folder_ids gives distinct directories distinct remote ids, and for
\* every directory d other than the root that it holds, the parent directory
\* of d has an id too and the remote folder of d is a child of the remote
\* folder of that parent, bearing d's name.
C29_RemoteMirrorsLocal ==
  HierarchyDone =>
    /\ \A d, e \in DOMAIN folder_ids : d # e => folder_ids[d] # folder_ids[e]
    /\ \A d \in DOMAIN folder_ids \ {Dot} :
         /\ dirname(d) \in DOMAIN folder_ids
         /\ RemoteChild(folder_ids[d], basename(d), folder_ids[dirname(d)])


\* upload_file on x comes to stage st in this step
Enters(x, st) ==
  /\ x \in DOMAIN uf
  /\ x \in DOMAIN uf'
  /\ uf[x].st \in Running \ {st}
  /\ uf'[x].st = st

\* the step is an existence check for x that matched nothing
ProbedAbsent(x) ==
  /\ lastCall'.op = "probe"
  /\ lastCall'.node = x
  /\ lastCall'.parent = uf[x].parent
  /\ list_children(basename(x), uf[x].parent) = {}
  /\ remote' = remote

\* Attempting is entered from the first check (attempt one) or from the check
\* that follows a transient failure, and in both cases the check found nothing
AttemptStep(x) ==
  Enters(x, "create") =>
     /\ ProbedAbsent(x)
     /\ uf'[x].rc = uf[x].rc
     /\ uf[x].st = IF uf[x].rc = 0 THEN "probe" ELSE "reprobe"

\* Probing is entered from a create that failed with a transient status, which
\* counts as one retry
TransientFailureStep(x) ==
  Enters(x, "reprobe") =>
     /\ uf[x].st = "create"
     /\ lastCall'.op = "create_file"
     /\ lastCall'.node = x
     /\ lastCall'.status \in Transient
     /\ uf'[x].rc = uf[x].rc + 1

\* the check after a transient failure finds the file: upload_file ends, sends
\* nothing more and, the check having answered, returns the id it found
FoundStep(x) ==
  (FoundOnRetry(x) /\ x \in DOMAIN uf' /\ uf'[x] # uf[x]) =>
     /\ uf'[x].st \notin Running
     /\ lastCall'.op = "probe"
     /\ remote' = remote
     /\ budget' = budget =>
          \E o \in list_children(basename(x), uf[x].parent) :
             returned' = [returned EXCEPT ![x] = Append(@, o.id)]

\* an attempt after the first is only ever pending after that many transient
\* failures, and a check after a failure only with at least one
RetryStages ==
  \A x \in DOMAIN uf :
     /\ uf[x].st = "probe" => uf[x].rc = 0
     /\ uf[x].st = "reprobe" => uf[x].rc >= 1

\* C30 (retry-then-probe state machine): in upload_file every create attempt
\* after the first follows an existence check, made after the transient
\* failure of the attempt before, that found nothing; a check that finds the
\* file ends the call with the id found and no further create.
C30_RetryThenProbe ==
  /\ []RetryStages
  /\ [][\A x \in Files : AttemptStep(x) /\ TransientFailureStep(x) /\ FoundStep(x)]_vars

\* the third attempt for a file is about to be made, after a check found nothing
C30_Witness ==
  \E x \in Files :
     /\ InUploadFile(x)
     /\ uf[x].st = "create"
     /\ uf[x].rc = 2
     /\ lastCall.op = "probe"
     /\ lastCall.node = x


\* in this step a remote call of upload_file on x fails with a transient status
TransientInUploadFile(x) ==
  /\ InUploadFile(x)
  /\ x \in DOMAIN uf'
  /\ uf'[x] # uf[x]
  /\ budget' < budget
  /\ lastCall'.node = x
  /\ lastCall'.op \in FileCalls
  /\ lastCall'.status \in Transient

\* in this step a remote call of find_or_create_folder fails with a transient
\* status
TransientInFolderCall ==
  /\ foc.phase # "off"
  /\ budget' < budget
  /\ lastCall'.op \in FolderCalls
  /\ lastCall'.status \in Transient

\* the call of upload_file on x goes on after this step: a retry is to come
UploadFileGoesOn(x) == uf'[x].st \in Running

\* find_or_create_folder is still at work after this step: a retry is to come
FolderCallGoesOn == foc'.phase # "off"

\* C31 (every transient failure is retried): a remote call of the client that
\* fails with a status in {429, 500, 502, 503, 504} is followed by a retry of
\* the operation, be it the file create, the existence check or a folder
\* look-up or create, unless retry_count has reached max_retries.
C31_TransientAlwaysRetried ==
  [][/\ \A x \in Files :
          TransientInUploadFile(x) =>
             UploadFileGoesOn(x) \/ uf[x].rc + 1 >= max_retries
     /\ TransientInFolderCall => FolderCallGoesOn]_vars


\* the stages of one group of sibling directories (lines 181-206)
GroupStages == {"small", "big", "bigfoc", "fallback"}

\* the loop of line 173 is at a group whose parent path has no id
MissingParent ==
  /\ pc = "group"
  /\ ~groups_done(gi, FolderGroups[cur])
  /\ group.parent_path \notin DOMAIN folder_ids

\* lines 175-185 for such a group: the root folder's id stands in and the
\* group's folders are worked on
SubstitutesRoot ==
  (MissingParent /\ pc' # pc /\ Alive) =>
     /\ parent_id' = folder_id
     /\ pc' \in GroupStages
     /\ ni' = 1
     /\ folder_ids' = folder_ids

\* a folder made for a directory whose parent has no id is made under the root
\* folder, with the directory's name
CreatedUnderRoot ==
  \A o \in remote' \ remote :
     (o.kind = "folder" /\ pc \in GroupStages /\ ~lastCall'.known) =>
        /\ o.parent = folder_id
        /\ o.name = basename(lastCall'.node)

\* inside a group every sibling has its turn: the index moves on by one, or
\* back to the first sibling when the except branch of line 197 takes over,
\* the group is left only after the last sibling, and nothing in these stages
\* aborts upload_folder
SiblingStep ==
  (pc \in GroupStages /\ Alive) =>
     /\ \/ ni' \in {ni, ni + 1}
        \/ pc = "small" /\ pc' = "fallback" /\ ni' = 1
     /\ gi' # gi => (ni > Len(group.items) /\ gi' = gi + 1)
     /\ pc' \in GroupStages \cup {"group"}
     /\ \A d \in DOMAIN folder_ids : d \in DOMAIN folder_ids' /\ folder_ids'[d] = folder_ids[d]

\* C32 (missing parent in the hierarchy stage): when the parent path of a group
\* has no id in folder_ids, upload_folder takes the root folder's id as the
\* parent, creates the group's folders under it and goes on; a sibling whose
\* creation fails does not keep the other siblings of the group from their
\* turn, and the run is not aborted.
C32_MissingParentRecovery ==
  [][SubstitutesRoot /\ CreatedUnderRoot /\ SiblingStep]_vars

\* after the failure of its parent a directory was created under the root
\* folder, and the hierarchy stage came to its end
C32_Witness ==
  /\ HierarchyDone
  /\ \E d \in DOMAIN folder_ids \ {Dot} :
        /\ dirname(d) # Dot
        /\ dirname(d) \notin DOMAIN folder_ids
        /\ RemoteChild(folder_ids[d], basename(d), folder_id)


\* the stages of upload_folder's transfer of files (lines 210-265)
TransferStage == {"files", "pool", "drain", "retry", "seq"}

\* line 167: once the root folder's id is known, '.' maps to it, and it is
\* there whenever a sub-directory or a file is worked on
RootEntryFirst ==
  pc \in (HierarchyStage \ {"root"}) \cup TransferStage =>
     /\ Dot \in DOMAIN folder_ids
     /\ folder_ids[Dot] = folder_id

\* a step of the hierarchy stage keeps every entry of folder_ids as it is
GrowsOnly ==
  (pc \in HierarchyStage \ {"root"} /\ Alive) =>
     \A d \in DOMAIN folder_ids :
        d \in DOMAIN folder_ids' /\ folder_ids'[d] = folder_ids[d]

\* a step of the transfer stage writes neither folder_ids nor folder_cache
ReadOnlyInTransfer ==
  (pc \in TransferStage /\ Alive) =>
     /\ folder_ids' = folder_ids
     /\ folder_cache' = folder_cache

\* C33 (folder_ids invariants): the entry of '.' is there before any
\* sub-directory is processed; during the hierarchy stage entries are added
\* and no entry is changed or removed; during the transfer stage (workers,
\* synchronous retries, sequential fallback) neither folder_ids nor the
\* folder-id cache is written.
C33_FolderIdsInvariants ==
  /\ []RootEntryFirst
  /\ [][GrowsOnly /\ ReadOnlyInTransfer]_vars

\* files are being sent by the coordinating thread while folder_ids and the
\* cache hold the root and two sub-directories
C33_Witness ==
  /\ pc \in {"retry", "seq"}
  /\ lastCall.op \in FileCalls
  /\ Cardinality(DOMAIN folder_ids) >= 3
  /\ Cardinality(DOMAIN folder_cache) >= 3


\* the files of the current folder whose directory has no id in folder_ids
Orphans == {x \in SeqToSet(FileItems[cur]) : parent_path(x) \notin DOMAIN folder_ids}

\* upload_file was never called for x and nothing was stored for it
NeverSent(x) ==
  /\ uf_calls[x] = 0
  /\ returned[x] = << >>
  /\ x \in DOMAIN uf => uf[x].st \in {"queued", "done"}
  /\ \A o \in remote : ~(o.kind = "file" /\ o.name = basename(x))

\* every batch of the folder has been worked through
TransferOver == pc = "record"

\* C34 (file without a parent id): a file whose parent path has no id in
\* folder_ids is never handed to upload_file and nothing is stored for it under
\* any folder, in the pool, in the synchronous retry and in the sequential
\* fallback; when the transfer is over that file is a failure, and upload_file
\* was called for every other file of the folder.
C34_OrphanFileFailsAlone ==
  /\ pc \in TransferStage => \A x \in Orphans : NeverSent(x)
  /\ TransferOver =>
       /\ \A x \in Orphans : x \in failed /\ NeverSent(x)
       /\ \A y \in SeqToSet(FileItems[cur]) \ Orphans : uf_calls[y] >= 1

\* the transfer of a folder is over: one file had no parent id and another
\* file was uploaded
C34_Witness ==
  /\ TransferOver
  /\ Orphans # {}
  /\ \E y \in SeqToSet(FileItems[cur]) \ Orphans :
        /\ y \notin failed
        /\ Len(returned[y]) >= 1


\* the loop over the results of a batch (lines 223-244) has come to its end
RetryLoopOver ==
  /\ pc = "retry"
  /\ ni > Len(results)
  /\ \A x \in DOMAIN uf : uf[x].st = "done"

\* upload_file is never invoked a third time for a file in one upload_folder
AtMostTwice ==
  pc \in TransferStage \cup {"record"} =>
     \A x \in SeqToSet(FileItems[cur]) : uf_calls[x] <= 2

\* C35 (bounded retry fan-out), as stated: a file that reported failure from
\* the pool has had exactly one more, synchronous, upload_file call when the
\* loop over the results ends, a file that reported success has had none, and
\* upload_file is invoked at most twice per file.
C35_BoundedRetry ==
  /\ AtMostTwice
  /\ RetryLoopOver =>
       \A i \in 1..Len(results) :
          uf_calls[results[i].path] = IF results[i].success THEN 1 ELSE 2

\* C35, amended: a file that reported failure from the pool has had exactly
\* one more, synchronous, upload_file call when the loop over the results
\* ends, unless its parent path has no id in folder_ids: then upload_file is
\* not called for it at all; a file that reported success has had none; and
\* upload_file is invoked at most twice per file, also when the sequential
\* fallback runs.
C35_BoundedRetryAmended ==
  /\ AtMostTwice
  /\ RetryLoopOver =>
       \A i \in 1..Len(results) :
          uf_calls[results[i].path] =
             IF results[i].success THEN 1
             ELSE IF results[i].path \in Orphans THEN 0 ELSE 2

\* the loop over the results is over: one file was sent once, another twice
C35_Witness ==
  /\ RetryLoopOver
  /\ \E i, j \in 1..Len(results) :
        /\ results[i].success
        /\ uf_calls[results[i].path] = 1
        /\ ~results[j].success
        /\ uf_calls[results[j].path] = 2


\* the upload_file calls in flight
InFlight == {x \in DOMAIN uf : uf[x].st \in Running}

\* the tasks of the pool that have not finished
Unfinished == {x \in DOMAIN uf : uf[x].st # "done"}

\* numbers of files a folder may hold, around the batch size
BatchLens == {0, 1, batch_size - 1, batch_size, batch_size + 1, 2 * batch_size + 1}

\* the slices of lines 215-216 put every file into exactly one batch, of at
\* most 100 files
OneBatchEach ==
  \A n \in BatchLens :
     /\ \A i \in 1..n : Cardinality({b \in batch_starts(n) : i \in batch_range(b, n)}) = 1
     /\ \A b \in batch_starts(n) : Cardinality(batch_range(b, n)) \in 1..100

\* the batch of the state is one of these slices, and the calls in flight and
\* the tasks of the pool are files of it
CurrentBatchOnly ==
  pc \in TransferStage \ {"files"} =>
     /\ bi \in batch_starts(Len(FileItems[cur]))
     /\ {FileItems[cur][i] : i \in batch_range(bi, Len(FileItems[cur]))} = SeqToSet(batch)
     /\ InFlight \subseteq SeqToSet(batch)
     /\ DOMAIN uf \subseteq SeqToSet(batch)

\* outside the pool only the coordinating thread calls upload_file, and no
\* task of the pool is left
PoolIsOver ==
  pc \in {"files", "retry", "seq", "record"} =>
     /\ Cardinality(InFlight) <= 1
     /\ Unfinished = InFlight

\* the pool is left for the retries, the fallback or the next batch only when
\* every task has finished
LeavesPoolWhenDone ==
  (pc \in PoolStages /\ pc' \in {"retry", "seq", "files"}) => Unfinished = {}

HasBrokenLink(f) == \E x \in SeqToSet(FileItems[f]) : ~exists(f, x)

\* get_folder_size leaves the broken links out of the sum: it is the sum of
\* the sizes of the files that exist
SizeSkipsBrokenLinks ==
  \A f \in AllFolders :
     LET fs == SelectSeq(FileItems[f], LAMBDA x : exists(f, x))
         S[i \in 0..Len(fs)] == IF i = 0 THEN 0 ELSE S[i - 1] + getsize[f][fs[i]]
     IN FolderSize[f] = S[Len(fs)]

\* once the root folder of such a folder is there, upload_folder goes on to
\* its folders and files
ScanGoesOn ==
  (pc = "root" /\ HasBrokenLink(cur) /\ folder_id' # folder_id /\ Alive) => pc' = "group"

\* C37 (broken symbolic links are not fatal): a folder that holds a symbolic
\* link whose target no longer exists is still scanned and uploaded; the link
\* is left out of the size sum, and neither get_folder_size nor the scan of
\* upload_folder ends the run because of it.
C37_BrokenLinkNotFatal ==
  /\ []SizeSkipsBrokenLinks
  /\ [][ScanGoesOn]_vars


\* parallel_upload_files returns in this step (line 295)
PoolReturns == pc = "pool" /\ pc' = "retry"

\* the outcomes are one per file of the batch
OnePerFile ==
  /\ Len(results) = Len(batch)
  /\ {results[i].path : i \in 1..Len(results)} = SeqToSet(batch)

\* a success goes with the id upload_file returned, which is the id of an
\* object of the store bearing the file's name; a failure is a file that
\* upload_file raised for, or that has no parent id
SuccessOrFailure ==
  \A i \in 1..Len(results) :
     LET x == results[i].path
     IN IF results[i].success
        THEN /\ x \notin failed
             /\ returned[x] # << >>
             /\ \E o \in remote : /\ o.id = returned[x][Len(returned[x])]
                                  /\ o.name = basename(x)
                                  /\ o.kind = "file"
        ELSE x \in failed

\* an exception of upload_file inside a worker ends that task with a failure
\* outcome and the pool goes on
WorkerCatches(x) ==
  (pc \in PoolStages /\ InUploadFile(x) /\ x \in DOMAIN uf' /\ uf'[x].st = "done"
     /\ returned' = returned /\ Alive) =>
       /\ results' = Append(results, [path |-> x, success |-> FALSE])
       /\ pc' = pc

\* C38 (one outcome per file): parallel_upload_files returns exactly one
\* outcome for each file of the batch and for no other path; each outcome is
\* a success with a remote id or a failure; an exception raised inside a
\* worker becomes the failure outcome of that file and does not leave the pool.
C38_OneOutcomePerFile ==
  [][/\ PoolReturns => (OnePerFile /\ SuccessOrFailure)
     /\ \A x \in Files : WorkerCatches(x)]_vars

\* the pool has returned two outcomes, a success and a failure that came from
\* an exception of upload_file
C38_Witness ==
  /\ pc = "retry"
  /\ ni = 1
  /\ Len(results) = 2
  /\ \E i, j \in 1..2 : /\ results[i].success
                        /\ ~results[j].success
                        /\ results[j].path \notin Orphans


\* the (name, parent) pairs find_or_create_folder has been or may be called with
PairsUsed == CallNames \X CallParents

\* the call that has just returned gave the id of a folder of the name asked
\* for, under the parent asked for (anywhere when no parent was given)
ReturnedRightFolder ==
  (pc = "direct" /\ foc.phase = "off") =>
     \A name \in DOMAIN created_folders :
        \E o \in remote : /\ o.id = created_folders[name]
                          /\ o.kind = "folder"
                          /\ o.name = name
                          /\ parent_id = None \/ o.parent = parent_id

\* no entry of the cache is the entry of two pairs
NoSharedEntry ==
  \A p, q \in PairsUsed :
     (cache_key(p[1], p[2]) = cache_key(q[1], q[2]) /\ cache_key(p[1], p[2]) \in DOMAIN folder_cache)
        => p = q

\* C39 (the folder-id cache never aliases): whatever the sequence of
\* find_or_create_folder calls in one process, the id returned for (name,
\* parent) is the id of a remote folder of that name under that parent, and
\* two distinct (name, parent) pairs never share a cache entry.
C39_CacheNeverAliases ==
  ReturnedRightFolder /\ NoSharedEntry


\* the folder being handled leaves to_upload in this step
Moves == pc = "move" /\ cur \in toUpload /\ cur \notin toUpload'

\* record_folder_upload was called for the folder, returned True, and the
\* ledger holds the folder's row
Recorded ==
  /\ last_record.called
  /\ last_record.folder = cur
  /\ last_record.ok
  /\ ledger.state = "table"
  /\ last_record.hash \in Hashes(ledger.rows)

\* C40 (moved implies recorded): upload_all_folders moves a folder from
\* to_upload to the uploaded directory only if record_folder_upload has
\* returned True for it and its row is in the ledger; when recording fails
\* the folder stays in to_upload.
C40_MovedImpliesRecorded ==
  [][Moves => Recorded]_vars

=============================================================================
